---- MODULE Spec2Model ----
(***************************************************************************)
(* Model of the Android module ExpoGdalPdfiumModule.kt of expo-gdal-pdfium:*)
(* the public operations getVersionInfo, listDrivers, readGeoPDF and       *)
(* renderGeoPDFToPng, the GEODETIC detection, the two metadata-recovery    *)
(* helpers called by renderGeoPDFToPng, the PdfRenderer fallback and the   *)
(* response envelope.                                                      *)
(*                                                                         *)
(* Coordinates are fixed-point integers, 20 units per degree, and every    *)
(* input coordinate is an even number of units, so that the divisions by   *)
(* 2.0 of the source are exact.  Texts the code searches (the library's    *)
(* diagnostic, the projection WKT) are sequences of characters.            *)
(***************************************************************************)
EXTENDS Integers, Sequences, FiniteSets, TLC

VARIABLES
  lastRead,      \* the last completed readGeoPDF: its file, faults and answers
  lib,           \* how the GDAL binding is linked: "ok", "noClasses", "noNative"
  disk,          \* the file at the input path
  outFile,       \* the file at the output path: "absent", "empty", "written"
  lastErrorMsg,  \* the library's process-wide last error message
  registered,    \* gdal.AllRegister()/ogr.RegisterAll() has run in this process
  op,            \* the operation in flight, "none" when idle
  pc,            \* position inside the operation's handler
  loc,           \* the handler's local variables
  trace,         \* library and platform calls made by the invocation, in order
  resolved,      \* envelopes passed to promise.resolve by the invocation, in order
  thrown,        \* throwable propagating towards the handler's catch clauses
  escaped        \* throwable that left the handler uncaught ("none" if none)

vars == <<lastRead, lib, disk, outFile, lastErrorMsg, registered, op, pc, loc, trace,
          resolved, thrown, escaped>>

(***************************************************************************)
(* Bounds of the model.                                                    *)
(***************************************************************************)
MaxLayers == 2
MaxGroups == 2

(***************************************************************************)
(* Texts.                                                                  *)
(***************************************************************************)
NullStr == <<"null">>
EmptyStr == <<>>
UpperChars == <<"A","B","C","D","E","F","G","H","I","J","K","L","M","N","O","P","Q","R","S","T","U","V","W","X","Y","Z">>
LowerChars == <<"a","b","c","d","e","f","g","h","i","j","k","l","m","n","o","p","q","r","s","t","u","v","w","x","y","z">>
StrGEODETIC == <<"G","E","O","D","E","T","I","C">>
StrUnhandled == <<"U","n","h","a","n","d","l","e","d">>
StrProjectionType == <<"P","r","o","j","e","c","t","i","o","n","T","y","p","e">>
StrWGS84 == <<"W","G","S"," ","8","4">>

DiagGeodeticFull == <<"U","n","h","a","n","d","l","e","d"," ","(","y","e","t",")"," ","v","a","l","u","e"," ","f","o","r"," ","P","r","o","j","e","c","t","i","o","n","T","y","p","e"," ",":"," ","G","E","O","D","E","T","I","C">>
DiagNoSuchFile == <<"N","o"," ","s","u","c","h"," ","f","i","l","e">>
DiagLowerGeodetic == <<"g","e","o","d","e","t","i","c"," ","c","r","s">>
DiagUnhandledProj == <<"U","N","H","A","N","D","L","E","D"," ","p","r","o","j","e","c","t","i","o","n","t","y","p","e">>
DiagUnhandledOnly == <<"U","n","h","a","n","d","l","e","d"," ","v","a","l","u","e">>
DiagProjTypeOnly == <<"b","a","d"," ","P","r","o","j","e","c","t","i","o","n","T","y","p","e">>

WktWGS84 == <<"G","E","O","G","C","S","[","W","G","S"," ","8","4","]">>
WktUTM == <<"P","R","O","J","C","S","[","U","T","M"," ","3","1","N","]">>
WktBad == <<"g","a","r","b","a","g","e">>

GeodeticDiags == {DiagGeodeticFull, DiagLowerGeodetic, DiagUnhandledProj}
OtherDiags == {NullStr, EmptyStr, DiagNoSuchFile, DiagUnhandledOnly, DiagProjTypeOnly}

\* Kotlin's Char.equals(other, ignoreCase = true) on the letters used here
ToLower(c) ==
  IF \E i \in 1..Len(UpperChars) : UpperChars[i] = c
  THEN LowerChars[CHOOSE i \in 1..Len(UpperChars) : UpperChars[i] = c]
  ELSE c

\* String.regionMatches: other occurs in s at position i
MatchesAt(s, other, i, ignoreCase) ==
  \A j \in 1..Len(other) :
    IF ignoreCase THEN ToLower(s[i + j - 1]) = ToLower(other[j])
                  ELSE s[i + j - 1] = other[j]

\* String.contains(other, ignoreCase)
Contains(s, other, ignoreCase) ==
  \E i \in 1..(Len(s) - Len(other) + 1) : MatchesAt(s, other, i, ignoreCase)

\* variant: the same tokens compared case-sensitively
isGeodeticNoCase(gdalError) ==
  gdalError # NullStr /\
    ( Contains(gdalError, StrGEODETIC, FALSE)
      \/ ( Contains(gdalError, StrUnhandled, FALSE)
           /\ Contains(gdalError, StrProjectionType, FALSE) ) )

\* variant: either of Unhandled, ProjectionType suffices
isGeodeticOr(gdalError) ==
  gdalError # NullStr /\
    ( Contains(gdalError, StrGEODETIC, TRUE)
      \/ Contains(gdalError, StrUnhandled, TRUE)
      \/ Contains(gdalError, StrProjectionType, TRUE) )

\* the GEODETIC detection of renderGeoPDFToPng
isGeodetic(gdalError) ==
  gdalError # NullStr /\
    ( Contains(gdalError, StrGEODETIC, TRUE)
      \/ ( Contains(gdalError, StrUnhandled, TRUE)
           /\ Contains(gdalError, StrProjectionType, TRUE) ) )

(***************************************************************************)
(* Coordinates.                                                            *)
(***************************************************************************)
Deg(d) == 20 * d
Half(v) == v \div 2
Pt(x, y) == [x |-> x, y |-> y]
LngOK(v) == v >= Deg(-180) /\ v <= Deg(180)
LatOK(v) == v >= Deg(-90) /\ v <= Deg(90)
Min2(a, b) == IF a <= b THEN a ELSE b
Max2(a, b) == IF a >= b THEN a ELSE b

\* Int.toString and Double.toString: the decimal text of a number, as a
\* sequence of characters (a coordinate is a multiple of 0.05 degree)
DigitChars == <<"0", "1", "2", "3", "4", "5", "6", "7", "8", "9">>
RECURSIVE NatToString(_)
NatToString(n) ==
  IF n < 10 THEN <<DigitChars[n + 1]>>
  ELSE NatToString(n \div 10) \o <<DigitChars[(n % 10) + 1]>>
IntToString(n) == IF n < 0 THEN <<"-">> \o NatToString(-n) ELSE NatToString(n)
DoubleToString(v) ==
  LET a == IF v < 0 THEN -v ELSE v
      hundredths == (a % Deg(1)) * 5
      fraction == IF hundredths % 10 = 0 THEN <<DigitChars[(hundredths \div 10) + 1]>>
                  ELSE <<DigitChars[(hundredths \div 10) + 1], DigitChars[(hundredths % 10) + 1]>>
  IN (IF v < 0 THEN <<"-">> ELSE <<>>) \o NatToString(a \div Deg(1)) \o <<".">> \o fraction
\* mapOf("x" to lng.toString(), "y" to lat.toString())
PtStr(p) == [x |-> DoubleToString(p.x), y |-> DoubleToString(p.y)]

\* data class GeoMetadata; NullMeta is Kotlin's null
GeoMetadata(tlLng, tlLat, trLng, trLat, blLng, blLat, brLng, brLat, cLng, cLat) ==
  [topLeftLng |-> tlLng, topLeftLat |-> tlLat,
   topRightLng |-> trLng, topRightLat |-> trLat,
   bottomLeftLng |-> blLng, bottomLeftLat |-> blLat,
   bottomRightLng |-> brLng, bottomRightLat |-> brLat,
   centerLng |-> cLng, centerLat |-> cLat]
NullMeta == [isNull |-> TRUE]
ZeroMeta == GeoMetadata(0, 0, 0, 0, 0, 0, 0, 0, 0, 0)

(***************************************************************************)
(* The response envelope.                                                  *)
(***************************************************************************)
\* variant: the error flag inverted
createResponseMapFlipped(msg, code, error, result) ==
  [msg |-> msg, code |-> code, error |-> ~error, result |-> result]

\* lines 1300-1313; a null result becomes the empty map
createResponseMap(msg, code, error, result) ==
  [msg |-> msg, code |-> code, error |-> error,
   result |-> IF result = [isNull |-> TRUE] THEN <<>> ELSE result]

Has(env, key) == key \in DOMAIN env.result

(***************************************************************************)
(* The two patterns of the byte scan, on the text of the file: a tag        *)
(* (/LLX, /LLY, /URX, /URY), white space and a number; and four numbers     *)
(* separated by white space between square brackets.  A number is an       *)
(* optional sign, digits, an optional point and optional digits.           *)
(***************************************************************************)
IsDigit(c) == \E d \in 1..Len(DigitChars) : DigitChars[d] = c
IsSpace(c) == c \in {" ", "\n", "\t"}

\* the index after the digits (the white space) that start at position i
SkipDigits(s, i) ==
  LET skip[j \in 1..(Len(s) + 2)] ==
        IF j <= Len(s) /\ IsDigit(s[j]) THEN skip[j + 1] ELSE j
  IN skip[i]
SkipSpaces(s, i) ==
  LET skip[j \in 1..(Len(s) + 2)] ==
        IF j <= Len(s) /\ IsSpace(s[j]) THEN skip[j + 1] ELSE j
  IN skip[i]

\* the number pattern matched at position i: the index after the match, 0 if none
NumberEnd(s, i) ==
  LET a == IF i <= Len(s) /\ s[i] \in {"-", "+"} THEN i + 1 ELSE i
      b == SkipDigits(s, a)
      c == IF b <= Len(s) /\ s[b] = "." THEN b + 1 ELSE b
  IN IF b = a THEN 0 ELSE SkipDigits(s, c)

RECURSIVE DigitsValue(_)
DigitsValue(s) ==
  IF s = <<>> THEN 0
  ELSE 10 * DigitsValue(SubSeq(s, 1, Len(s) - 1))
         + ((CHOOSE d \in 1..Len(DigitChars) : DigitChars[d] = s[Len(s)]) - 1)

\* String.toDouble of a capture, in the model's units
toDouble(s) ==
  LET body == IF s[1] \in {"-", "+"} THEN Tail(s) ELSE s
      dots == {i \in 1..Len(body) : body[i] = "."}
      dot == IF dots = {} THEN Len(body) + 1 ELSE CHOOSE i \in dots : TRUE
      digits == SubSeq(body, dot + 1, Len(body))
      hundredths == IF Len(digits) = 0 THEN 0
                    ELSE IF Len(digits) = 1 THEN 10 * DigitsValue(digits)
                    ELSE DigitsValue(SubSeq(digits, 1, 2))
      a == DigitsValue(SubSeq(body, 1, dot - 1)) * Deg(1) + hundredths \div 5
  IN IF s[1] = "-" THEN -a ELSE a

\* matcher.find() of a tag pattern: the first capture, as a sequence of 0 or 1
FindTag(s, tag, i) ==
  LET find[p \in 1..(Len(s) + 1)] ==
        IF p > Len(s) THEN <<>>
        ELSE LET j == p + Len(tag)
                 k == SkipSpaces(s, j)
                 e == IF MatchesAt(s, tag, p, FALSE) /\ k > j THEN NumberEnd(s, k) ELSE 0
             IN IF e # 0 THEN <<toDouble(SubSeq(s, k, e - 1))>> ELSE find[p + 1]
  IN find[i]

TagsOf(content) ==
  [LLX |-> FindTag(content, <<"/", "L", "L", "X">>, 1),
   LLY |-> FindTag(content, <<"/", "L", "L", "Y">>, 1),
   URX |-> FindTag(content, <<"/", "U", "R", "X">>, 1),
   URY |-> FindTag(content, <<"/", "U", "R", "Y">>, 1)]

\* the bracket pattern matched at position i: four numbers, white space
\* between them, optional white space after "[" and before "]"
BoxAt(s, i) ==
  LET none == [ok |-> FALSE, end |-> 0, caps |-> <<>>]
      rest[n \in 1..5, p \in 1..(Len(s) + 2)] ==
        LET a == SkipSpaces(s, p)
            e == NumberEnd(s, a)
            r == rest[n + 1, e]
        IN IF n = 5
           THEN IF a <= Len(s) /\ s[a] = "]"
                THEN [ok |-> TRUE, end |-> a + 1, caps |-> <<>>] ELSE none
           ELSE IF (n > 1 /\ a = p) \/ e = 0 THEN none
           ELSE IF r.ok
                THEN [ok |-> TRUE, end |-> r.end,
                      caps |-> <<toDouble(SubSeq(s, a, e - 1))>> \o r.caps]
                ELSE none
  IN IF s[i] = "[" THEN rest[1, i + 1] ELSE none

\* the successive matches of while (bboxMatcher.find()), in document order
GroupsOf(s, i) ==
  LET groups[p \in 1..(Len(s) + 2)] ==
        IF p > Len(s) THEN <<>>
        ELSE LET b == BoxAt(s, p)
             IN IF b.ok THEN <<b.caps>> \o groups[b.end] ELSE groups[p + 1]
  IN groups[i]

ContentExample ==
  <<"/", "L", "L", "X", " ", "1", "0", " ", "/", "L", "L", "Y", " ", "2",
    "0", " ", "/", "U", "R", "X", " ", "1", "5", " ", "/", "U", "R", "Y",
    " ", "2", "5">>
ContentReordered ==
  <<"/", "U", "R", "Y", " ", "2", "5", "\n", "/", "L", "L", "X", " ", "1",
    "0", " ", "/", "U", "R", "X", " ", "1", "5", " ", "[", "1", " ", "2",
    "]", " ", "/", "L", "L", "Y", " ", "2", "0">>
ContentDecimal ==
  <<"/", "L", "L", "X", " ", "-", "1", "0", ".", "5", " ", "/", "L", "L",
    "Y", " ", "+", "2", "0", ".", " ", "/", "U", "R", "X", " ", "1", "5",
    " ", "/", "U", "R", "Y", " ", "2", "5", ".", "5">>
ContentMissing ==
  <<"/", "L", "L", "X", " ", "1", "0", " ", "/", "L", "L", "Y", " ", "2",
    "0", " ", "/", "U", "R", "X", " ", "1", "5", " ", "/", "U", "R", "Y",
    "x", " ", "[", "3", "0", " ", "-", "1", "0", " ", "2", "0", " ", "4",
    "0", "]">>
ContentOutOfRange ==
  <<"/", "L", "L", "X", " ", "1", "0", " ", "/", "L", "L", "Y", " ", "2",
    "0", " ", "/", "U", "R", "X", " ", "1", "9", "0", " ", "/", "U", "R",
    "Y", " ", "2", "5", " ", "[", "0", " ", "0", " ", "6", "1", "2", " ",
    "7", "9", "2", "]", "[", " ", "5", " ", "6", "\n", "7", " ", "8", " ",
    "]">>
ContentNoSpace ==
  <<"/", "L", "L", "X", "1", "0", " ", "/", "L", "L", "Y", " ", "2", "0",
    " ", "/", "U", "R", "X", " ", "1", "5", " ", "/", "U", "R", "Y", " ",
    "2", "5">>
ContentInverted ==
  <<"/", "L", "L", "X", " ", "1", "5", " ", "/", "L", "L", "Y", " ", "2",
    "0", " ", "/", "U", "R", "X", " ", "1", "0", " ", "/", "U", "R", "Y",
    " ", "2", "5">>
Contents ==
  {ContentExample, ContentReordered, ContentDecimal,
   ContentMissing, ContentOutOfRange, ContentNoSpace, ContentInverted}

(***************************************************************************)
(* The file at the input path, as the library and the platform see it.     *)
(*   opens/diag     gdal.Open yields a dataset, or null and this message   *)
(*   tags, groups   what the two patterns of the byte scan capture, in     *)
(*                  document order (tags[t] = captures of tag t)           *)
(*   ogrOpens, layers   the file through the vector interface              *)
(*   pageCount      the file through PdfRenderer                           *)
(***************************************************************************)
NoTags == [LLX |-> <<>>, LLY |-> <<>>, URX |-> <<>>, URY |-> <<>>]
Tags(llx, lly, urx, ury) ==
  [LLX |-> <<llx>>, LLY |-> <<lly>>, URX |-> <<urx>>, URY |-> <<ury>>]

GtExample == <<Deg(-10), 2, 0, Deg(20), 0, -2>>
GtProjected == <<4000, 4, 0, 3000, 0, -4>>
GtNone == <<0, Deg(1), 0, 0, 0, Deg(1)>>

Layer(isNull, extent, srs) == [isNull |-> isNull, extent |-> extent, srs |-> srs]

BaseFile ==
  [exists |-> TRUE, empty |-> FALSE, canRead |-> TRUE,
   opens |-> FALSE, diag |-> DiagGeodeticFull,
   width |-> 100, height |-> 100, bandCount |-> 3,
   gt |-> GtExample, projRef |-> WktWGS84, proj |-> WktWGS84, nullBands |-> {},
   tags |-> NoTags, groups |-> <<>>,
   ogrOpens |-> FALSE, layers |-> <<>>,
   pageCount |-> 1, pageWidth |-> 612, pageHeight |-> 792]

\* files the pre-checks of renderGeoPDFToPng reject
PreCheckFiles ==
  { [BaseFile EXCEPT !.exists = e, !.empty = z, !.canRead = r, !.diag = DiagNoSuchFile] :
      e \in BOOLEAN, z \in BOOLEAN, r \in BOOLEAN } \ {[BaseFile EXCEPT !.diag = DiagNoSuchFile]}

\* files the raster driver cannot open, by diagnostic
FailingFiles ==
  { [BaseFile EXCEPT !.diag = d, !.pageCount = n] :
      d \in GeodeticDiags \cup OtherDiags, n \in 0..1 }

\* captures of the byte scan
TagChoices ==
  { NoTags,
    Tags(Deg(10), Deg(20), Deg(15), Deg(25)),
    Tags(Deg(10), Deg(20), Deg(190), Deg(25)),
    [Tags(Deg(10), Deg(20), Deg(15), Deg(25)) EXCEPT !.URY = <<>>] }
GroupChoices ==
  { <<0, 0, 12240, 15840>>,
    <<Deg(30), Deg(-10), Deg(20), Deg(40)>>,
    <<Deg(-5), Deg(5), Deg(7), Deg(-7)>> }
SeqsUpTo(S, n) == UNION { [1..k -> S] : k \in 0..n }

ScanFiles ==
  { [BaseFile EXCEPT !.tags = t, !.groups = g] :
      t \in TagChoices, g \in SeqsUpTo(GroupChoices, MaxGroups) }

\* files by the text the scan reads
TextFiles ==
  { [BaseFile EXCEPT !.tags = TagsOf(c), !.groups = GroupsOf(c, 1)] : c \in Contents }

\* vector layers
LayerChoices ==
  { Layer(TRUE, <<>>, "null"),
    Layer(FALSE, <<>>, "WGS84"),
    Layer(FALSE, <<Deg(-200), Deg(10), Deg(0), Deg(10)>>, "WGS84"),
    Layer(FALSE, <<Deg(10), Deg(15), Deg(20), Deg(25)>>, "null"),
    Layer(FALSE, <<Deg(40), Deg(50), Deg(-30), Deg(-20)>>, "WGS84"),
    Layer(FALSE, <<Deg(100), Deg(110), Deg(60), Deg(70)>>, "GRID"),
    Layer(FALSE, <<Deg(170), Deg(178), Deg(80), Deg(88)>>, "GRID") }

VectorFiles ==
  { [BaseFile EXCEPT !.ogrOpens = TRUE, !.layers = l] :
      l \in SeqsUpTo(LayerChoices, MaxLayers) }

\* files the raster driver opens: by georeferencing, and by band layout
GeorefFiles ==
  { [BaseFile EXCEPT !.opens = TRUE, !.diag = EmptyStr, !.width = wh[1], !.height = wh[2],
                     !.gt = g, !.projRef = pr[1], !.proj = pr[2]] :
      wh \in {<<100, 100>>, <<3, 2>>},
      g \in {GtExample, GtProjected, GtNone},
      pr \in {<<WktWGS84, WktWGS84>>, <<WktUTM, WktUTM>>, <<WktBad, WktBad>>,
              <<EmptyStr, EmptyStr>>, <<NullStr, WktUTM>>, <<EmptyStr, NullStr>>} }

BandFiles ==
  { [BaseFile EXCEPT !.opens = TRUE, !.diag = EmptyStr, !.width = 3, !.height = 2,
                     !.bandCount = b, !.nullBands = nb] :
      b \in 0..4, nb \in {{}, {1}, {2}, {4}} }

RasterFiles == GeorefFiles \cup BandFiles

\* no invocation in flight names a path
NoInput == [BaseFile EXCEPT !.exists = FALSE]

Files ==
  PreCheckFiles \cup FailingFiles \cup ScanFiles \cup TextFiles \cup VectorFiles
    \cup RasterFiles

(***************************************************************************)
(* java.io.File on the input path.                                         *)
(***************************************************************************)
Exists(file) == file.exists
Length0(file) == ~file.exists \/ file.empty
CanRead(file) == file.exists /\ file.canRead

\* gdal.Open: a dataset, or null and the diagnostic GetLastErrorMsg then returns
GdalOpens(file) == Exists(file) /\ ~Length0(file) /\ CanRead(file) /\ file.opens
GdalDiag(file) == IF Exists(file) THEN file.diag ELSE DiagNoSuchFile

(***************************************************************************)
(* The library's spatial references and coordinate transformation.         *)
(* An SRS is "WGS84", "UTM" or "GRID"; "error" is a failed import.         *)
(***************************************************************************)
ImportFromWkt(wkt) ==
  IF wkt = WktWGS84 THEN "WGS84" ELSE IF wkt = WktUTM THEN "UTM" ELSE "error"

IsSame(srs, other) == srs = other

\* CoordinateTransformation(srs, WGS84).TransformPoint
TransformPoint(srs, p) ==
  CASE srs = "WGS84" -> p
    [] srs = "UTM"   -> Pt(2 * (p.x \div 40), 2 * (p.y \div 40))
    [] OTHER         -> Pt(p.x + Deg(10), p.y)

(***************************************************************************)
(* tryExtractMetadataWithOGR: the byte-pattern scan.                       *)
(***************************************************************************)
TagsFound(tags) ==
  Len(tags.LLX) > 0 /\ Len(tags.LLY) > 0 /\ Len(tags.URX) > 0 /\ Len(tags.URY) > 0

TagsValid(llx, lly, urx, ury) ==
  LngOK(llx) /\ LatOK(lly) /\ LngOK(urx) /\ LatOK(ury)

\* variant: the top corners on the lower latitude
MetaFromTagsLowerTop(llx, lly, urx, ury) ==
  GeoMetadata(llx, lly, urx, lly, llx, ury, urx, ury,
              Half(llx + urx), Half(lly + ury))

\* lines 1007-1018: the extent of the four tags
MetaFromTags(llx, lly, urx, ury) ==
  GeoMetadata(llx, ury, urx, ury, llx, lly, urx, lly,
              Half(llx + urx), Half(lly + ury))

GroupValid(g) == LngOK(g[1]) /\ LatOK(g[2]) /\ LngOK(g[3]) /\ LatOK(g[4])

MetaFromGroup(g) ==
  LET minLng == Min2(g[1], g[3])
      maxLng == Max2(g[1], g[3])
      minLat == Min2(g[2], g[4])
      maxLat == Max2(g[2], g[4])
  IN GeoMetadata(minLng, maxLat, maxLng, maxLat, minLng, minLat, maxLng, minLat,
                 Half(minLng + maxLng), Half(minLat + maxLat))

RECURSIVE ScanGroups(_, _)
ScanGroups(groups, i) ==
  IF i > Len(groups) THEN NullMeta
  ELSE IF GroupValid(groups[i]) THEN MetaFromGroup(groups[i])
  ELSE ScanGroups(groups, i + 1)

\* variant: the bracket pattern tried only when a tag is missing
ScanContentMissingOnly(file) ==
  LET t == file.tags IN
  IF TagsFound(t)
  THEN IF TagsValid(t.LLX[1], t.LLY[1], t.URX[1], t.URY[1])
       THEN MetaFromTags(t.LLX[1], t.LLY[1], t.URX[1], t.URY[1])
       ELSE NullMeta
  ELSE ScanGroups(file.groups, 1)

\* lines 993-1064: the tag pattern, then the bracket pattern
ScanContent(file) ==
  LET t == file.tags IN
  IF TagsFound(t) /\ TagsValid(t.LLX[1], t.LLY[1], t.URX[1], t.URY[1])
  THEN MetaFromTags(t.LLX[1], t.LLY[1], t.URX[1], t.URY[1])
  ELSE ScanGroups(file.groups, 1)

ScanFaults == {"none", "readFully"}

tryExtractMetadataWithOGR(file, fault) ==
  IF ~Exists(file) \/ ~CanRead(file)
  THEN [ret |-> NullMeta, events |-> <<"stratB">>]
  ELSE IF fault = "readFully"
  THEN [ret |-> NullMeta, events |-> <<"stratB", "open:raf">>]
  ELSE [ret |-> ScanContent(file), events |-> <<"stratB", "open:raf", "close:raf">>]

(***************************************************************************)
(* tryExtractMetadataWithOGRVector: the vector-layer extent.               *)
(***************************************************************************)
Pre(ev, r) == [r EXCEPT !.events = ev \o @]

ExtentValid(extent) ==
  extent[1] >= Deg(-180) /\ extent[2] <= Deg(180)
    /\ extent[3] >= Deg(-90) /\ extent[4] <= Deg(90)

MetaFromExtent(minX, maxX, minY, maxY) ==
  GeoMetadata(minX, maxY, maxX, maxY, minX, minY, maxX, minY,
              Half(minX + maxX), Half(minY + maxY))

\* one layer that passed the range check: lines 1120-1175
LayerResult(layer, fault) ==
  LET e == layer.extent IN
  IF fault = "ImportFromEPSG"
  THEN [ret |-> NullMeta, thrown |-> "Exception", events |-> <<"open:srs">>]
  ELSE IF layer.srs # "null" /\ ~IsSame(layer.srs, "WGS84")
  THEN IF fault = "TransformPoint"
       THEN [ret |-> NullMeta, thrown |-> "Exception",
             events |-> <<"open:srs", "open:transform">>]
       ELSE LET minPoint == TransformPoint(layer.srs, Pt(e[1], e[3]))
                maxPoint == TransformPoint(layer.srs, Pt(e[2], e[4]))
            IN [ret |-> MetaFromExtent(minPoint.x, maxPoint.x, minPoint.y, maxPoint.y),
                thrown |-> "none", events |-> <<"open:srs", "open:transform">>]
  ELSE [ret |-> MetaFromExtent(e[1], e[2], e[3], e[4]),
        thrown |-> "none", events |-> <<"open:srs">>]

RECURSIVE ScanLayers(_, _, _)
\* variant: the loop gives up at the first layer whose bounds fail the check
ScanLayersStopAtInvalid(layers, i, fault) ==
  IF i > Len(layers)
  THEN [ret |-> NullMeta, thrown |-> "none", events |-> <<>>]
  ELSE IF layers[i].isNull
  THEN ScanLayers(layers, i + 1, fault)
  ELSE IF fault = "GetExtent"
  THEN [ret |-> NullMeta, thrown |-> "Exception", events |-> <<"layer">>]
  ELSE IF Len(layers[i].extent) >= 4 /\ ExtentValid(layers[i].extent)
  THEN Pre(<<"layer">>, LayerResult(layers[i], fault))
  ELSE [ret |-> NullMeta, thrown |-> "none", events |-> <<"layer">>]

\* lines 1095-1181: the loop over the layers, from layer i on
ScanLayers(layers, i, fault) ==
  IF i > Len(layers)
  THEN [ret |-> NullMeta, thrown |-> "none", events |-> <<>>]
  ELSE IF layers[i].isNull
  THEN ScanLayers(layers, i + 1, fault)
  ELSE IF fault = "GetExtent"
  THEN [ret |-> NullMeta, thrown |-> "Exception", events |-> <<"layer">>]
  ELSE IF Len(layers[i].extent) >= 4 /\ ExtentValid(layers[i].extent)
  THEN Pre(<<"layer">>, LayerResult(layers[i], fault))
  ELSE Pre(<<"layer">>, ScanLayers(layers, i + 1, fault))

VectorFaults ==
  {"none", "RegisterAll:UnsatisfiedLinkError", "RegisterAll:Exception",
   "GetExtent", "ImportFromEPSG", "TransformPoint"}

\* ret: the GeoMetadata or null; thrown: what leaves the function
tryExtractMetadataWithOGRVector(file, fault) ==
  IF fault = "RegisterAll:UnsatisfiedLinkError"
  THEN [ret |-> NullMeta, thrown |-> "UnsatisfiedLinkError", events |-> <<"stratC">>]
  ELSE IF fault = "RegisterAll:Exception"
  THEN [ret |-> NullMeta, thrown |-> "none", events |-> <<"stratC", "catch:stratC">>]
  ELSE IF ~(Exists(file) /\ file.ogrOpens)
  THEN [ret |-> NullMeta, thrown |-> "none",
        events |-> <<"stratC", "ogr.RegisterAll", "ogr.Open">>]
  ELSE LET r == ScanLayers(file.layers, 1, fault) IN
       [ret |-> IF r.thrown = "none" THEN r.ret ELSE NullMeta,
        thrown |-> "none",
        events |-> <<"stratC", "ogr.RegisterAll", "ogr.Open", "open:dataSource">>
                     \o r.events \o <<"close:dataSource">>
                     \o (IF r.thrown = "none" THEN <<>> ELSE <<"catch:stratC">>)]

(***************************************************************************)
(* renderPDFWithAndroidPdfRenderer: the page-rasterization fallback.       *)
(* outcome is what the platform does: "ok", or the call that fails.        *)
(***************************************************************************)
scale == 4
NullMap == [isNull |-> TRUE]

PageOutcomes ==
  {"ok", "fdOpen", "rendererCtor", "openPage", "render", "fosOpen",
   "compressFails", "writeThrows", "pageClose"}

\* variant: the fallback map without renderedWith
FallbackResultUntagged(file, metadata) ==
  LET finalMetadata == IF metadata = NullMeta THEN ZeroMeta ELSE metadata IN
  ("inputPath" :> "inputPath") @@ ("outputPath" :> "outputPath")
    @@ ("width" :> IntToString(file.pageWidth * scale))
    @@ ("height" :> IntToString(file.pageHeight * scale))
    @@ ("metadataExtracted" :> (metadata # NullMeta))
    @@ ("topLeft" :> PtStr(Pt(finalMetadata.topLeftLng, finalMetadata.topLeftLat)))
    @@ ("topRight" :> PtStr(Pt(finalMetadata.topRightLng, finalMetadata.topRightLat)))
    @@ ("bottomLeft" :> PtStr(Pt(finalMetadata.bottomLeftLng, finalMetadata.bottomLeftLat)))
    @@ ("bottomRight" :> PtStr(Pt(finalMetadata.bottomRightLng, finalMetadata.bottomRightLat)))
    @@ ("center" :> PtStr(Pt(finalMetadata.centerLng, finalMetadata.centerLat)))

\* variant: the fallback map with the default coordinates always
FallbackResultDefaults(file, metadata) ==
  ("inputPath" :> "inputPath") @@ ("outputPath" :> "outputPath")
    @@ ("width" :> IntToString(file.pageWidth * scale))
    @@ ("height" :> IntToString(file.pageHeight * scale))
    @@ ("renderedWith" :> "AndroidPdfRenderer")
    @@ ("metadataExtracted" :> (metadata # NullMeta))
    @@ ("topLeft" :> PtStr(Pt(0, 0))) @@ ("topRight" :> PtStr(Pt(0, 0)))
    @@ ("bottomLeft" :> PtStr(Pt(0, 0))) @@ ("bottomRight" :> PtStr(Pt(0, 0)))
    @@ ("center" :> PtStr(Pt(0, 0)))

\* lines 1253-1285: the result map of a successful fallback
FallbackResult(file, metadata) ==
  LET finalMetadata == IF metadata = NullMeta THEN ZeroMeta ELSE metadata IN
  ("inputPath" :> "inputPath") @@ ("outputPath" :> "outputPath")
    @@ ("width" :> IntToString(file.pageWidth * scale))
    @@ ("height" :> IntToString(file.pageHeight * scale))
    @@ ("renderedWith" :> "AndroidPdfRenderer")
    @@ ("metadataExtracted" :> (metadata # NullMeta))
    @@ ("topLeft" :> PtStr(Pt(finalMetadata.topLeftLng, finalMetadata.topLeftLat)))
    @@ ("topRight" :> PtStr(Pt(finalMetadata.topRightLng, finalMetadata.topRightLat)))
    @@ ("bottomLeft" :> PtStr(Pt(finalMetadata.bottomLeftLng, finalMetadata.bottomLeftLat)))
    @@ ("bottomRight" :> PtStr(Pt(finalMetadata.bottomRightLng, finalMetadata.bottomRightLat)))
    @@ ("center" :> PtStr(Pt(finalMetadata.centerLng, finalMetadata.centerLat)))

\* ret: the response map or null; out: the output file afterwards
renderPDFWithAndroidPdfRenderer(file, out, metadata, outcome) ==
  LET closeAll == <<"close:page", "close:pdfRenderer", "close:fd">> IN
  IF ~Exists(file) \/ ~CanRead(file)
  THEN [ret |-> NullMap, out |-> out, events |-> <<"pageRender">>]
  ELSE IF outcome = "fdOpen"
  THEN [ret |-> NullMap, out |-> out, events |-> <<"pageRender">>]
  ELSE IF outcome = "rendererCtor"
  THEN [ret |-> NullMap, out |-> out, events |-> <<"pageRender", "open:fd">>]
  ELSE IF file.pageCount = 0 \/ outcome = "openPage"
  THEN [ret |-> NullMap, out |-> out,
        events |-> <<"pageRender", "open:fd", "open:pdfRenderer",
                     "close:pdfRenderer", "close:fd">>]
  ELSE LET opened == <<"pageRender", "open:fd", "open:pdfRenderer", "open:page">> IN
  IF outcome \in {"render", "fosOpen"}
  THEN [ret |-> NullMap, out |-> out, events |-> opened \o closeAll]
  ELSE IF outcome = "compressFails"
  THEN [ret |-> NullMap, out |-> "empty",
        events |-> opened \o <<"open:fos", "close:fos">> \o closeAll]
  ELSE IF outcome = "writeThrows"
  THEN [ret |-> NullMap, out |-> "empty", events |-> opened \o <<"open:fos">> \o closeAll]
  ELSE IF outcome = "pageClose"
  THEN [ret |-> NullMap, out |-> "written",
        events |-> opened \o <<"open:fos", "close:fos">>
                     \o <<"close:pdfRenderer", "close:fd">>]
  ELSE [ret |-> createResponseMap("rendered with fallback", "SUCCESS", FALSE,
                                  FallbackResult(file, metadata)),
        out |-> "written",
        events |-> opened \o <<"open:fos", "close:fos">> \o closeAll]

(***************************************************************************)
(* The primary path of renderGeoPDFToPng: corner and center coordinates.   *)
(***************************************************************************)
\* variant: the center from the integer halves of width and height
NativeCornersIntHalf(width, height, geoTransform) ==
  LET topLeftX == geoTransform[1]
      topLeftY == geoTransform[4]
      pixelWidth == geoTransform[2]
      pixelHeight == geoTransform[6]
  IN [topLeft |-> Pt(topLeftX, topLeftY),
      topRight |-> Pt(topLeftX + width * pixelWidth, topLeftY),
      bottomLeft |-> Pt(topLeftX, topLeftY + height * pixelHeight),
      bottomRight |-> Pt(topLeftX + width * pixelWidth, topLeftY + height * pixelHeight),
      center |-> Pt(topLeftX + (width \div 2) * pixelWidth,
                    topLeftY + (height \div 2) * pixelHeight)]

\* lines 484-504: corners and center from the geotransform
NativeCorners(width, height, geoTransform) ==
  LET topLeftX == geoTransform[1]
      topLeftY == geoTransform[4]
      pixelWidth == geoTransform[2]
      pixelHeight == geoTransform[6]
  IN [topLeft |-> Pt(topLeftX, topLeftY),
      topRight |-> Pt(topLeftX + width * pixelWidth, topLeftY),
      bottomLeft |-> Pt(topLeftX, topLeftY + height * pixelHeight),
      bottomRight |-> Pt(topLeftX + width * pixelWidth, topLeftY + height * pixelHeight),
      center |-> Pt(topLeftX + Half(width * pixelWidth),
                    topLeftY + Half(height * pixelHeight))]

ProjectionWkt(file) ==
  IF file.projRef = NullStr \/ file.projRef = EmptyStr THEN file.proj ELSE file.projRef

TransformFaults == {"none", "tgtImport", "create", "tp1", "tp2", "tp3", "tp4", "tp5"}

\* TransformPoint calls that return before the one that throws
PointsDone(fault) ==
  CASE fault = "none" -> 5
    [] fault = "tp5" -> 4
    [] fault = "tp4" -> 3
    [] fault = "tp3" -> 2
    [] fault = "tp2" -> 1
    [] OTHER -> 0

\* lines 513-582: the coordinates the response reports
PrimaryCoords(file, fault) ==
  LET n == NativeCorners(file.width, file.height, file.gt)
      wkt == ProjectionWkt(file)
      srs == ImportFromWkt(wkt)
      k == IF srs = "error" THEN 0 ELSE PointsDone(fault)
  IN IF wkt = NullStr \/ wkt = EmptyStr THEN n
     ELSE [topLeft |-> IF k >= 1 THEN TransformPoint(srs, n.topLeft) ELSE n.topLeft,
           topRight |-> IF k >= 2 THEN TransformPoint(srs, n.topRight) ELSE n.topRight,
           bottomLeft |-> IF k >= 3 THEN TransformPoint(srs, n.bottomLeft) ELSE n.bottomLeft,
           bottomRight |-> IF k >= 4 THEN TransformPoint(srs, n.bottomRight) ELSE n.bottomRight,
           center |-> IF k >= 5 THEN TransformPoint(srs, n.center) ELSE n.center]

PrimaryCoordsEvents(file, fault) ==
  LET wkt == ProjectionWkt(file) IN
  IF wkt = NullStr \/ wkt = EmptyStr THEN <<>>
  ELSE IF ImportFromWkt(wkt) = "error" THEN <<"open:srs">>
  ELSE IF fault = "tgtImport" THEN <<"open:srs", "open:srs">>
  ELSE <<"open:srs", "open:srs", "open:transform">>

PrimaryResult(file, pts) ==
  ("inputPath" :> "inputPath") @@ ("outputPath" :> "outputPath")
    @@ ("width" :> IntToString(file.width)) @@ ("height" :> IntToString(file.height))
    @@ ("geoTransform" :> [i \in 1..6 |-> DoubleToString(file.gt[i])])
    @@ ("topLeft" :> PtStr(pts.topLeft)) @@ ("topRight" :> PtStr(pts.topRight))
    @@ ("bottomLeft" :> PtStr(pts.bottomLeft)) @@ ("bottomRight" :> PtStr(pts.bottomRight))
    @@ ("center" :> PtStr(pts.center))

(***************************************************************************)
(* extractGeospatialMetadata: the geotransform-based extraction.  No       *)
(* handler calls it; it never returns null (the default is all zeros).     *)
(***************************************************************************)
extractGeospatialMetadata(file, fault) ==
  LET n == NativeCorners(file.width, file.height, file.gt)
      hasGeoTransform == file.gt[1] # 0 \/ file.gt[4] # 0
      wkt == file.projRef
      srs == ImportFromWkt(wkt)
      reproject == wkt # NullStr /\ wkt # EmptyStr /\ ~Contains(wkt, StrWGS84, TRUE)
      k == IF ~reproject THEN 0
           ELSE IF srs = "error" \/ PointsDone(fault) = 0 THEN 0
           ELSE IF PointsDone(fault) >= 4 THEN 4 ELSE PointsDone(fault)
      topLeft == IF k >= 1 THEN TransformPoint(srs, n.topLeft) ELSE n.topLeft
      topRight == IF k >= 2 THEN TransformPoint(srs, n.topRight) ELSE n.topRight
      bottomLeft == IF k >= 3 THEN TransformPoint(srs, n.bottomLeft) ELSE n.bottomLeft
      bottomRight == IF k >= 4 THEN TransformPoint(srs, n.bottomRight) ELSE n.bottomRight
  IN IF GdalOpens(file) /\ hasGeoTransform /\ LngOK(topLeft.x) /\ LatOK(topLeft.y)
     THEN GeoMetadata(topLeft.x, topLeft.y, topRight.x, topRight.y,
                      bottomLeft.x, bottomLeft.y, bottomRight.x, bottomRight.y,
                      Half(topLeft.x + bottomRight.x), Half(topLeft.y + bottomRight.y))
     ELSE ZeroMeta

(***************************************************************************)
(* The library binding and the handlers' catch clauses.                    *)
(***************************************************************************)
LibStates == {"ok", "noClasses", "noNative"}
Operations == {"getVersionInfo", "listDrivers", "readGeoPDF", "renderGeoPDFToPng"}

\* what the first library call of a handler throws on a broken binding
LibThrows(l) ==
  IF l = "noClasses" THEN "ClassNotFoundException" ELSE "UnsatisfiedLinkError"


\* variant: without the catch (e: Exception) clause
CatchesNoException(kind) ==
  kind \in {"ClassNotFoundException", "UnsatisfiedLinkError"}

\* the catch clauses that end every handler
Catches(kind) ==
  kind \in {"ClassNotFoundException", "UnsatisfiedLinkError", "Exception"}

CatchResponse(kind) ==
  CASE kind = "ClassNotFoundException" ->
         createResponseMap("GDAL classes not found", "CLASS_NOT_FOUND", TRUE,
                           "errorDetails" :> "message")
    [] kind = "UnsatisfiedLinkError" ->
         createResponseMap("GDAL native library not loaded", "NATIVE_LIBRARY_ERROR", TRUE,
                           "errorDetails" :> "message")
    [] OTHER ->
         createResponseMap("Error", "ERROR", TRUE,
                           ("errorDetails" :> "message") @@ ("errorType" :> kind))

InitLoc ==
  [dataset |-> FALSE, gdalError |-> EmptyStr, isGeodetic |-> FALSE,
   metadata |-> NullMeta, pts |-> NativeCorners(0, 0, <<0, 0, 0, 0, 0, 0>>),
   pixels |-> "none", bitmap |-> "none"]

\* no readGeoPDF has completed yet
NoRead == [file |-> NoInput, throws |-> <<>>, resolved |-> <<>>, err |-> EmptyStr]

Init ==
  /\ lastRead = NoRead
  /\ lib \in LibStates
  /\ disk = NoInput
  /\ outFile = "absent"
  /\ lastErrorMsg = EmptyStr
  /\ registered = FALSE
  /\ op = "none"
  /\ pc = "idle"
  /\ loc = InitLoc
  /\ trace = <<>>
  /\ resolved = <<>>
  /\ thrown = "none"
  /\ escaped = "none"

\* the calling runtime invokes a public operation; disk is the file at the
\* path the invocation names
Invoke ==
  /\ pc = "idle"
  /\ \E o \in Operations :
       /\ op' = o
       /\ IF o \in {"readGeoPDF", "renderGeoPDFToPng"}
          THEN disk' \in Files
          ELSE disk' = disk
  /\ pc' = "start"
  /\ UNCHANGED <<lastRead, lib, outFile, lastErrorMsg, registered, loc, trace,
                 resolved, thrown, escaped>>

\* the promise is settled and the handler has returned
Return ==
  /\ pc = "done"
  /\ pc' = "idle"
  /\ op' = "none"
  /\ loc' = InitLoc
  /\ trace' = <<>>
  /\ resolved' = <<>>
  /\ thrown' = "none"
  /\ escaped' = "none"
  /\ disk' = NoInput
  /\ UNCHANGED <<lastRead, lib, outFile, lastErrorMsg, registered>>

Resolve(env) == resolved' = Append(resolved, env)
Throw(kind) == thrown' = kind /\ pc' = "catch"

\* the catch clauses of the handler in flight
Catch ==
  /\ pc = "catch"
  /\ pc' = "done"
  /\ thrown' = "none"
  /\ IF Catches(thrown)
     THEN Resolve(CatchResponse(thrown)) /\ UNCHANGED escaped
     ELSE escaped' = thrown /\ UNCHANGED resolved
  /\ UNCHANGED <<lastRead, lib, disk, outFile, lastErrorMsg, registered, op, loc, trace>>

\* variant: the dataset deleted at the end of the try body, not in a finally
FinallyNormalOnly ==
  /\ pc = "finally"
  /\ trace' = IF thrown = "none" THEN Append(trace, "close:dataset") ELSE trace
  /\ loc' = [loc EXCEPT !.dataset = (thrown # "none")]
  /\ pc' = IF thrown = "none" THEN "done" ELSE "catch"
  /\ UNCHANGED <<lastRead, lib, disk, outFile, lastErrorMsg, registered, op, resolved, thrown,
                 escaped>>

\* the finally block that deletes the dataset (readGeoPDF, renderGeoPDFToPng);
\* "close:dataset" is the call of delete(), which may itself throw
Finally ==
  /\ pc = "finally"
  /\ \E fault \in {"none", "Exception"} :
       /\ thrown' = IF fault = "none" THEN thrown ELSE fault
       /\ trace' = IF fault = "none" THEN Append(trace, "close:dataset")
                   ELSE trace \o <<"close:dataset", "throw:close:dataset">>
       /\ loc' = [loc EXCEPT !.dataset = (fault # "none")]
  /\ pc' = IF thrown' = "none" THEN "done" ELSE "catch"
  /\ UNCHANGED <<lastRead, lib, disk, outFile, lastErrorMsg, registered, op, resolved, escaped>>

(***************************************************************************)
(* getVersionInfo and listDrivers.                                         *)
(***************************************************************************)
GetVersionInfo ==
  /\ op = "getVersionInfo" /\ pc = "start"
  /\ IF lib # "ok"
     THEN Throw(LibThrows(lib)) /\ UNCHANGED <<resolved, trace>>
     ELSE \E fault \in {"none", "Exception"} :
            /\ trace' = Append(trace, "VersionInfo")
            /\ IF fault = "none"
               THEN /\ Resolve(createResponseMap("Version info retrieved successfully",
                         "SUCCESS", FALSE,
                         ("version" :> "v") @@ ("versionNum" :> "n") @@ ("releaseDate" :> "d")))
                    /\ pc' = "done" /\ UNCHANGED thrown
               ELSE Throw(fault) /\ UNCHANGED resolved
  /\ UNCHANGED <<lastRead, lib, disk, outFile, lastErrorMsg, registered, op, loc, escaped>>

\* the driver registry: GetDriver(i) is a name, or "null"
DriverLists == {<<>>, <<"PDF">>, <<"PDF", "GTiff">>, <<"PDF", "null">>}

DriverEntries(drivers) ==
  LET keep == SelectSeq(drivers, LAMBDA d : d # "null")
  IN [i \in 1..Len(keep) |-> [shortName |-> keep[i], longName |-> keep[i]]]

\* variant: the drivers counted without registering them first
ListDriversUnregistered ==
  /\ op = "listDrivers" /\ pc = "start"
  /\ IF lib # "ok"
     THEN Throw(LibThrows(lib)) /\ UNCHANGED <<resolved, trace, registered>>
     ELSE \E drivers \in DriverLists :
            /\ UNCHANGED registered
            /\ trace' = trace \o <<"GetDriverCount">>
            /\ Resolve(createResponseMap("Drivers retrieved successfully", "SUCCESS", FALSE,
                  ("driverCount" :> IntToString(Len(drivers))) @@ ("drivers" :> DriverEntries(drivers))))
            /\ pc' = "done" /\ UNCHANGED thrown
  /\ UNCHANGED <<lastRead, lib, disk, outFile, lastErrorMsg, op, loc, escaped>>

\* lines 147-190: register, count the drivers, list the non-null ones
ListDrivers ==
  /\ op = "listDrivers" /\ pc = "start"
  /\ IF lib # "ok"
     THEN Throw(LibThrows(lib)) /\ UNCHANGED <<resolved, trace, registered>>
     ELSE \E drivers \in DriverLists :
            /\ registered' = TRUE
            /\ trace' = trace \o <<"AllRegister", "GetDriverCount">>
            /\ Resolve(createResponseMap("Drivers retrieved successfully", "SUCCESS", FALSE,
                  ("driverCount" :> IntToString(Len(drivers))) @@ ("drivers" :> DriverEntries(drivers))))
            /\ pc' = "done" /\ UNCHANGED thrown
  /\ UNCHANGED <<lastRead, lib, disk, outFile, lastErrorMsg, op, loc, escaped>>

(***************************************************************************)
(* readGeoPDF.                                                             *)
(***************************************************************************)
BandsInfo(file) ==
  LET idx == SelectSeq([i \in 1..file.bandCount |-> i], LAMBDA i : i \notin file.nullBands)
  IN [k \in 1..Len(idx) |-> [bandNumber |-> IntToString(idx[k])]]

\* variant: a missing projection reported as the library's last error message
ReadResultLastError(file) ==
  ("filePath" :> "filePath")
    @@ ("width" :> IntToString(file.width)) @@ ("height" :> IntToString(file.height))
    @@ ("bandCount" :> IntToString(file.bandCount)) @@ ("driver" :> "PDF")
    @@ ("projection" :> IF file.projRef = NullStr THEN lastErrorMsg ELSE file.projRef)
    @@ ("geoTransform" :> [i \in 1..6 |-> DoubleToString(file.gt[i])])
    @@ ("bands" :> BandsInfo(file))

\* lines 272-288: the result of a successful read
ReadResult(file) ==
  ("filePath" :> "filePath")
    @@ ("width" :> IntToString(file.width)) @@ ("height" :> IntToString(file.height))
    @@ ("bandCount" :> IntToString(file.bandCount)) @@ ("driver" :> "PDF")
    @@ ("projection" :> IF file.projRef = NullStr THEN <<"Unknown">> ELSE file.projRef)
    @@ ("geoTransform" :> [i \in 1..6 |-> DoubleToString(file.gt[i])])
    @@ ("bands" :> BandsInfo(file))

\* variant: an empty file answered FILE_EMPTY, as the renderer answers it
ReadOpenPreChecked ==
  /\ op = "readGeoPDF" /\ pc = "start"
  /\ IF lib # "ok"
     THEN /\ Throw(LibThrows(lib))
          /\ UNCHANGED <<resolved, trace, registered, lastErrorMsg, loc>>
     ELSE /\ registered' = TRUE
          /\ UNCHANGED thrown
          /\ IF GdalOpens(disk)
             THEN /\ trace' = trace \o <<"AllRegister", "gdal.Open", "open:dataset">>
                  /\ loc' = [loc EXCEPT !.dataset = TRUE]
                  /\ pc' = "rd_info"
                  /\ UNCHANGED <<resolved, lastErrorMsg>>
             ELSE /\ trace' = trace \o <<"AllRegister", "gdal.Open">>
                  /\ lastErrorMsg' = GdalDiag(disk)
                  /\ Resolve(createResponseMap("Failed to open GeoPDF file",
                        IF Exists(disk) /\ Length0(disk) THEN "FILE_EMPTY" ELSE "FILE_NOT_FOUND",
                        TRUE, "errorDetails" :> "Could not open file"))
                  /\ pc' = "done"
                  /\ UNCHANGED loc
  /\ UNCHANGED <<lastRead, lib, disk, outFile, op, escaped>>

\* lines 218-238: register, open; no dataset is answered FILE_NOT_FOUND
ReadOpen ==
  /\ op = "readGeoPDF" /\ pc = "start"
  /\ IF lib # "ok"
     THEN /\ Throw(LibThrows(lib))
          /\ UNCHANGED <<resolved, trace, registered, lastErrorMsg, loc>>
     ELSE /\ registered' = TRUE
          /\ UNCHANGED thrown
          /\ IF GdalOpens(disk)
             THEN /\ trace' = trace \o <<"AllRegister", "gdal.Open", "open:dataset">>
                  /\ loc' = [loc EXCEPT !.dataset = TRUE]
                  /\ pc' = "rd_info"
                  /\ UNCHANGED <<resolved, lastErrorMsg>>
             ELSE /\ trace' = trace \o <<"AllRegister", "gdal.Open">>
                  /\ lastErrorMsg' = GdalDiag(disk)
                  /\ Resolve(createResponseMap("Failed to open GeoPDF file",
                        "FILE_NOT_FOUND", TRUE, "errorDetails" :> "Could not open file"))
                  /\ pc' = "done"
                  /\ UNCHANGED loc
  /\ UNCHANGED <<lastRead, lib, disk, outFile, op, escaped>>

ReadInfo ==
  /\ op = "readGeoPDF" /\ pc = "rd_info"
  /\ \E fault \in {"none", "Exception"} :
       IF fault = "none"
       THEN /\ Resolve(createResponseMap("GeoPDF read successfully", "SUCCESS", FALSE,
                                         ReadResult(disk)))
            /\ UNCHANGED <<thrown, trace>>
       ELSE /\ thrown' = fault
            /\ trace' = Append(trace, "throw:read")
            /\ UNCHANGED resolved
  /\ pc' = "finally"
  /\ UNCHANGED <<lastRead, lib, disk, outFile, lastErrorMsg, registered, op, loc, escaped>>

(***************************************************************************)
(* renderGeoPDFToPng.                                                      *)
(***************************************************************************)
\* variant: canRead tested before length
PreCheckSwapped(file) ==
  IF ~Exists(file) THEN "FILE_NOT_FOUND"
  ELSE IF ~CanRead(file) THEN "FILE_PERMISSION_DENIED"
  ELSE IF Length0(file) THEN "FILE_EMPTY"
  ELSE ""

\* lines 351-396: the code the input-path checks answer with, "" if they pass
PreCheck(file) ==
  IF ~Exists(file) THEN "FILE_NOT_FOUND"
  ELSE IF Length0(file) THEN "FILE_EMPTY"
  ELSE IF ~CanRead(file) THEN "FILE_PERMISSION_DENIED"
  ELSE ""

PreCheckResult(file) ==
  IF ~Exists(file)
  THEN ("errorDetails" :> "File does not exist") @@ ("fileExists" :> FALSE)
         @@ ("absolutePath" :> "inputPath") @@ ("canRead" :> CanRead(file))
         @@ ("canWrite" :> FALSE) @@ ("isFile" :> FALSE) @@ ("isDirectory" :> FALSE)
  ELSE IF Length0(file) THEN "errorDetails" :> "File is empty (0 bytes)"
  ELSE "errorDetails" :> "File exists but cannot be read"

RenderPreCheck ==
  /\ op = "renderGeoPDFToPng" /\ pc = "start"
  /\ IF PreCheck(disk) # ""
     THEN /\ Resolve(createResponseMap("Failed to open GeoPDF file for rendering",
                                       PreCheck(disk), TRUE, PreCheckResult(disk)))
          /\ pc' = "done"
     ELSE pc' = "r_open" /\ UNCHANGED resolved
  /\ UNCHANGED <<lastRead, lib, disk, outFile, lastErrorMsg, registered, op, loc, trace,
                 thrown, escaped>>

\* lines 404-407: the last error message is read before the open, and logged
\* when there is one
PreviousError(previousError) ==
  IF previousError # NullStr /\ previousError # EmptyStr
  THEN <<"GetLastErrorMsg", "Log.w:previousError">>
  ELSE <<"GetLastErrorMsg">>

\* variant: the message read before the open is classified as well
RenderOpenPrevious ==
  /\ op = "renderGeoPDFToPng" /\ pc = "r_open"
  /\ IF lib # "ok"
     THEN /\ Throw(LibThrows(lib))
          /\ UNCHANGED <<trace, registered, lastErrorMsg, loc>>
     ELSE /\ registered' = TRUE
          /\ UNCHANGED thrown
          /\ IF GdalOpens(disk)
             THEN /\ trace' = trace \o <<"AllRegister">> \o PreviousError(lastErrorMsg)
                                   \o <<"gdal.Open", "open:dataset">>
                  /\ loc' = [loc EXCEPT !.dataset = TRUE]
                  /\ pc' = "r_coords"
                  /\ UNCHANGED lastErrorMsg
             ELSE /\ trace' = trace \o <<"AllRegister">> \o PreviousError(lastErrorMsg)
                                   \o <<"gdal.Open", "GetLastErrorMsg">>
                  /\ lastErrorMsg' = GdalDiag(disk)
                  /\ loc' = [loc EXCEPT !.gdalError = lastErrorMsg',
                                        !.isGeodetic = isGeodetic(lastErrorMsg')
                                                        \/ isGeodetic(lastErrorMsg)]
                  /\ pc' = IF isGeodetic(lastErrorMsg') \/ isGeodetic(lastErrorMsg)
                           THEN "r_stratB" ELSE "r_failed"
  /\ UNCHANGED <<lastRead, lib, disk, outFile, op, resolved, escaped>>

\* lines 400-426: register, open, and classify a failed open
RenderOpen ==
  /\ op = "renderGeoPDFToPng" /\ pc = "r_open"
  /\ IF lib # "ok"
     THEN /\ Throw(LibThrows(lib))
          /\ UNCHANGED <<trace, registered, lastErrorMsg, loc>>
     ELSE /\ registered' = TRUE
          /\ UNCHANGED thrown
          /\ IF GdalOpens(disk)
             THEN /\ trace' = trace \o <<"AllRegister">> \o PreviousError(lastErrorMsg)
                                   \o <<"gdal.Open", "open:dataset">>
                  /\ loc' = [loc EXCEPT !.dataset = TRUE]
                  /\ pc' = "r_coords"
                  /\ UNCHANGED lastErrorMsg
             ELSE /\ trace' = trace \o <<"AllRegister">> \o PreviousError(lastErrorMsg)
                                   \o <<"gdal.Open", "GetLastErrorMsg">>
                  /\ lastErrorMsg' = GdalDiag(disk)
                  /\ loc' = [loc EXCEPT !.gdalError = lastErrorMsg',
                                        !.isGeodetic = isGeodetic(lastErrorMsg')]
                  /\ pc' = IF isGeodetic(lastErrorMsg') THEN "r_stratB" ELSE "r_failed"
  /\ UNCHANGED <<lastRead, lib, disk, outFile, op, resolved, escaped>>

Returned(name, ret, null) ==
  <<IF ret = null THEN name \o ":null" ELSE name \o ":value">>

\* variant: the vector strategy after every scan
AfterScanAlways(metadata) == "r_stratC"

\* lines 434-437: the vector interface is tried only if the scan found nothing
AfterScan(metadata) == IF metadata = NullMeta THEN "r_stratC" ELSE "r_page"

\* line 433: metadata = tryExtractMetadataWithOGR(inputPath)
RenderScan ==
  /\ op = "renderGeoPDFToPng" /\ pc = "r_stratB"
  /\ \E fault \in ScanFaults :
       LET r == tryExtractMetadataWithOGR(disk, fault) IN
       /\ loc' = [loc EXCEPT !.metadata = r.ret]
       /\ trace' = trace \o r.events \o Returned("stratB", r.ret, NullMeta)
       /\ pc' = AfterScan(r.ret)
  /\ UNCHANGED <<lastRead, lib, disk, outFile, lastErrorMsg, registered, op, resolved,
                 thrown, escaped>>

\* lines 434-437: metadata = tryExtractMetadataWithOGRVector(inputPath)
RenderVector ==
  /\ op = "renderGeoPDFToPng" /\ pc = "r_stratC"
  /\ \E fault \in VectorFaults :
       LET r == tryExtractMetadataWithOGRVector(disk, fault) IN
       IF r.thrown = "none"
       THEN /\ trace' = trace \o r.events \o Returned("stratC", r.ret, NullMeta)
            /\ loc' = [loc EXCEPT !.metadata = r.ret]
            /\ pc' = "r_page"
            /\ UNCHANGED thrown
       ELSE /\ trace' = trace \o r.events
            /\ Throw(r.thrown)
            /\ UNCHANGED loc
  /\ UNCHANGED <<lastRead, lib, disk, outFile, lastErrorMsg, registered, op, resolved, escaped>>

\* lines 440-449: the PdfRenderer fallback
RenderPage ==
  /\ op = "renderGeoPDFToPng" /\ pc = "r_page"
  /\ \E outcome \in PageOutcomes :
       LET r == renderPDFWithAndroidPdfRenderer(disk, outFile, loc.metadata, outcome) IN
       /\ trace' = trace \o r.events \o Returned("pageRender", r.ret, NullMap)
       /\ outFile' = r.out
       /\ IF r.ret # NullMap
          THEN Resolve(r.ret) /\ pc' = "done"
          ELSE pc' = "r_failed" /\ UNCHANGED resolved
  /\ UNCHANGED <<lastRead, lib, disk, lastErrorMsg, registered, op, loc, thrown, escaped>>

\* variant: fallbackAttempted always false
OpenFailedResultNotAttempted(file, l) ==
  ("errorDetails" :> "GDAL could not open file")
    @@ ("gdalError" :> IF l.gdalError = NullStr THEN <<"No error message available">>
                       ELSE l.gdalError)
    @@ ("gdalErrorType" :> "errorType")
    @@ ("fileExists" :> Exists(file)) @@ ("fileSize" :> IF Length0(file) THEN <<"0">> ELSE <<"n">>)
    @@ ("fileCanRead" :> CanRead(file))
    @@ ("isGeodetic" :> l.isGeodetic) @@ ("fallbackAttempted" :> FALSE)

\* lines 457-466: the result map of GDAL_OPEN_FAILED
OpenFailedResult(file, l) ==
  ("errorDetails" :> "GDAL could not open file")
    @@ ("gdalError" :> IF l.gdalError = NullStr THEN <<"No error message available">>
                       ELSE l.gdalError)
    @@ ("gdalErrorType" :> "errorType")
    @@ ("fileExists" :> Exists(file)) @@ ("fileSize" :> IF Length0(file) THEN <<"0">> ELSE <<"n">>)
    @@ ("fileCanRead" :> CanRead(file))
    @@ ("isGeodetic" :> l.isGeodetic) @@ ("fallbackAttempted" :> l.isGeodetic)

\* lines 451-469: not GEODETIC, or the fallback failed too
RenderOpenFailed ==
  /\ op = "renderGeoPDFToPng" /\ pc = "r_failed"
  /\ Resolve(createResponseMap("Failed to open GeoPDF file for rendering",
                               "GDAL_OPEN_FAILED", TRUE, OpenFailedResult(disk, loc)))
  /\ pc' = "done"
  /\ UNCHANGED <<lastRead, lib, disk, outFile, lastErrorMsg, registered, op, loc, trace,
                 thrown, escaped>>

\* lines 472-582: dimensions, geotransform, corner and center coordinates
RenderCoords ==
  /\ op = "renderGeoPDFToPng" /\ pc = "r_coords"
  /\ \E fault \in TransformFaults :
       /\ loc' = [loc EXCEPT !.pts = PrimaryCoords(disk, fault)]
       /\ trace' = trace \o PrimaryCoordsEvents(disk, fault)
  /\ pc' = "r_bands"
  /\ UNCHANGED <<lastRead, lib, disk, outFile, lastErrorMsg, registered, op, resolved,
                 thrown, escaped>>

RenderError(details) ==
  createResponseMap("Failed to render GeoPDF to PNG", "RENDER_ERROR", TRUE,
                    "errorDetails" :> details)

\* lines 587-591: the bitmap configuration chosen from the band count
bitmapConfig(bandCount) ==
  IF bandCount >= 3 THEN "ARGB_8888"
  ELSE IF bandCount = 1 THEN "ALPHA_8"
  ELSE "ARGB_8888"

\* lines 643, 673: bitmap.setPixels(pixels, ...); a bitmap of configuration
\* ALPHA_8 stores one alpha byte per pixel and no colour, so of the packed
\* ARGB values it keeps the alpha channel only
setPixels(config, pixels) == IF config = "ALPHA_8" THEN "alpha" ELSE pixels

\* lines 587-684: the bands become the bitmap's pixels
BandLayout(file) ==
  IF file.bandCount >= 3
  THEN IF {1, 2, 3} \cap file.nullBands # {} THEN "nullBand"
       ELSE IF file.bandCount >= 4 /\ 4 \notin file.nullBands THEN "rgba" ELSE "rgb"
  ELSE IF file.bandCount = 1
  THEN IF 1 \in file.nullBands THEN "nullBand" ELSE "gray"
  ELSE "unsupported"

RenderBands ==
  /\ op = "renderGeoPDFToPng" /\ pc = "r_bands"
  /\ \E fault \in {"none", "createBitmap", "ReadRaster"} :
       IF fault = "createBitmap"
       THEN /\ thrown' = "Exception" /\ pc' = "finally"
            /\ UNCHANGED <<resolved, loc, trace>>
       ELSE IF BandLayout(disk) = "nullBand"
       THEN /\ Resolve(RenderError("Could not read bands from dataset"))
            /\ pc' = "finally" /\ trace' = Append(trace, "open:bitmap")
            /\ UNCHANGED <<thrown, loc>>
       ELSE IF BandLayout(disk) = "unsupported"
       THEN /\ Resolve(RenderError("Unsupported band count"))
            /\ pc' = "finally" /\ trace' = Append(trace, "open:bitmap")
            /\ UNCHANGED <<thrown, loc>>
       ELSE IF fault = "ReadRaster"
       THEN /\ thrown' = "Exception" /\ pc' = "finally"
            /\ trace' = trace \o <<"open:bitmap", "ReadRaster">>
            /\ UNCHANGED <<resolved, loc>>
       ELSE /\ loc' = [loc EXCEPT !.pixels = BandLayout(disk),
                                  !.bitmap = setPixels(bitmapConfig(disk.bandCount),
                                                       BandLayout(disk))]
            /\ trace' = trace \o <<"open:bitmap", "ReadRaster">>
            /\ pc' = "r_write"
            /\ UNCHANGED <<resolved, thrown>>
  /\ UNCHANGED <<lastRead, lib, disk, outFile, lastErrorMsg, registered, op, escaped>>

\* lines 686-739: the bitmap becomes the PNG file, and the call answers
WriteOutcomes == {"ok", "fosOpen", "compressFails", "writeThrows"}

\* variant: the written file is not looked at before success is reported
RenderWriteUnchecked ==
  /\ op = "renderGeoPDFToPng" /\ pc = "r_write"
  /\ \E outcome \in WriteOutcomes :
       CASE outcome = "fosOpen" ->
              /\ Resolve(RenderError("Error writing PNG file"))
              /\ trace' = Append(trace, "close:bitmap")
              /\ UNCHANGED outFile
         [] outcome = "writeThrows" ->
              /\ Resolve(RenderError("Error writing PNG file"))
              /\ trace' = trace \o <<"open:fos", "close:bitmap">>
              /\ outFile' = "empty"
         [] outcome = "compressFails" ->
              /\ Resolve(createResponseMap("GeoPDF rendered to PNG successfully",
                                           "SUCCESS", FALSE, PrimaryResult(disk, loc.pts)))
              /\ trace' = trace \o <<"open:fos", "close:fos", "close:bitmap">>
              /\ outFile' = "empty"
         [] OTHER ->
              /\ Resolve(createResponseMap("GeoPDF rendered to PNG successfully",
                                           "SUCCESS", FALSE, PrimaryResult(disk, loc.pts)))
              /\ trace' = trace \o <<"open:fos", "close:fos", "close:bitmap">>
              /\ outFile' = "written"
  /\ pc' = "finally"
  /\ UNCHANGED <<lastRead, lib, disk, lastErrorMsg, registered, op, loc, thrown, escaped>>

\* lines 686-739: the bitmap written as PNG, and the answer of the primary renderer
RenderWrite ==
  /\ op = "renderGeoPDFToPng" /\ pc = "r_write"
  /\ \E outcome \in WriteOutcomes :
       CASE outcome = "fosOpen" ->
              /\ Resolve(RenderError("Error writing PNG file"))
              /\ trace' = Append(trace, "close:bitmap")
              /\ UNCHANGED outFile
         [] outcome = "writeThrows" ->
              /\ Resolve(RenderError("Error writing PNG file"))
              /\ trace' = trace \o <<"open:fos", "close:bitmap">>
              /\ outFile' = "empty"
         [] outcome = "compressFails" ->
              /\ Resolve(RenderError("Failed to write PNG file"))
              /\ trace' = trace \o <<"open:fos", "close:fos", "close:bitmap">>
              /\ outFile' = "empty"
         [] OTHER ->
              /\ Resolve(createResponseMap("GeoPDF rendered to PNG successfully",
                                           "SUCCESS", FALSE, PrimaryResult(disk, loc.pts)))
              /\ trace' = trace \o <<"open:fos", "close:fos", "close:bitmap">>
              /\ outFile' = "written"
  /\ pc' = "finally"
  /\ UNCHANGED <<lastRead, lib, disk, lastErrorMsg, registered, op, loc, thrown, escaped>>

Next ==
  \/ Invoke
  \/ Return
  \/ Catch
  \/ Finally
  \/ GetVersionInfo
  \/ ListDrivers
  \/ ReadOpen
  \/ ReadInfo
  \/ RenderPreCheck
  \/ RenderOpen
  \/ RenderScan
  \/ RenderVector
  \/ RenderPage
  \/ RenderOpenFailed
  \/ RenderCoords
  \/ RenderBands
  \/ RenderWrite

Spec == Init /\ [][Next]_vars

(***************************************************************************)
(* Repeated invocations on a few files, with the last completed readGeoPDF *)
(* remembered, so that two invocations can be compared.                    *)
(***************************************************************************)
\* one file of each kind: two rasters that open (the second without a
\* projection), a one-band raster, the GEODETIC document, a file the driver
\* rejects, a path with no file
ProbeFiles ==
  { [BaseFile EXCEPT !.opens = TRUE, !.diag = EmptyStr],
    [BaseFile EXCEPT !.opens = TRUE, !.diag = EmptyStr, !.projRef = NullStr, !.proj = WktUTM],
    [BaseFile EXCEPT !.opens = TRUE, !.diag = EmptyStr, !.width = 3, !.height = 2,
                     !.bandCount = 1],
    BaseFile,
    [BaseFile EXCEPT !.diag = DiagNoSuchFile],
    [BaseFile EXCEPT !.exists = FALSE, !.diag = DiagNoSuchFile] }

\* the exceptions the library raised during the invocation, in order
Throws(t) == SelectSeq(t, LAMBDA e : e \in {"throw:read", "throw:close:dataset"})

InvokeProbe ==
  /\ pc = "idle"
  /\ \E o \in Operations :
       /\ op' = o
       /\ IF o \in {"readGeoPDF", "renderGeoPDFToPng"}
          THEN disk' \in ProbeFiles
          ELSE disk' = disk
  /\ pc' = "start"
  /\ UNCHANGED <<lastRead, lib, outFile, lastErrorMsg, registered, loc, trace,
                 resolved, thrown, escaped>>

\* the handler has returned; a readGeoPDF is remembered
ReturnRecording ==
  /\ pc = "done"
  /\ pc' = "idle"
  /\ op' = "none"
  /\ loc' = InitLoc
  /\ trace' = <<>>
  /\ resolved' = <<>>
  /\ thrown' = "none"
  /\ escaped' = "none"
  /\ disk' = NoInput
  /\ lastRead' = IF op = "readGeoPDF"
                 THEN [file |-> disk, throws |-> Throws(trace), resolved |-> resolved,
                       err |-> lastErrorMsg]
                 ELSE lastRead
  /\ UNCHANGED <<lib, outFile, lastErrorMsg, registered>>

NextRepeat ==
  \/ InvokeProbe
  \/ ReturnRecording
  \/ Catch
  \/ Finally
  \/ GetVersionInfo
  \/ ListDrivers
  \/ ReadOpen
  \/ ReadInfo
  \/ RenderPreCheck
  \/ RenderOpen
  \/ RenderScan
  \/ RenderVector
  \/ RenderPage
  \/ RenderOpenFailed
  \/ RenderCoords
  \/ RenderBands
  \/ RenderWrite

SpecRepeat == Init /\ [][NextRepeat]_vars

(***************************************************************************)
(* Properties.                                                             *)
(***************************************************************************)
InTrace(e) == \E i \in 1..Len(trace) : trace[i] = e
Rendering == op = "renderGeoPDFToPng"
OpenFailed == Rendering /\ InTrace("gdal.Open") /\ ~InTrace("open:dataset")

\* what the invocation was asked for has been done
Succeeded ==
  /\ lib = "ok"
  /\ op \in {"readGeoPDF", "renderGeoPDFToPng"} => Exists(disk)
  /\ op = "readGeoPDF" => disk.opens /\ ~disk.empty /\ disk.canRead
  /\ Rendering =>
       /\ ~disk.empty /\ disk.canRead
       /\ disk.opens \/ disk.diag \in GeodeticDiags
       /\ InTrace("close:fos") /\ outFile = "written"
       /\ disk.opens => InTrace("ReadRaster") /\ loc.pixels # "none"

C2_PreCheckPrecedence ==
  (Rendering /\ (~disk.exists \/ disk.empty \/ ~disk.canRead)) =>
    /\ trace = <<>>
    /\ pc \in {"start", "done"}
    /\ pc = "done" =>
         /\ Len(resolved) = 1
         /\ resolved[1].error
         /\ resolved[1].code =
              IF ~disk.exists THEN "FILE_NOT_FOUND"
              ELSE IF disk.empty THEN "FILE_EMPTY"
              ELSE "FILE_PERMISSION_DENIED"

C2_Witness ==
  /\ pc = "done" /\ Rendering /\ disk.exists /\ disk.empty /\ ~disk.canRead
  /\ resolved[1].code = "FILE_EMPTY"

\* C3: a failed open is classified UnsupportedScheme exactly when its diagnostic
\* contains GEODETIC, or both Unhandled and ProjectionType, in any letter case;
\* a null, empty or other diagnostic is Other.  The full library message is
\* UnsupportedScheme and "No such file" is Other.
C3_Classifier ==
  OpenFailed =>
    /\ loc.isGeodetic =
         (loc.gdalError \in {DiagGeodeticFull, DiagLowerGeodetic, DiagUnhandledProj})
    /\ loc.gdalError \in {NullStr, EmptyStr, DiagNoSuchFile, DiagUnhandledOnly,
                          DiagProjTypeOnly} => ~loc.isGeodetic
    /\ loc.gdalError = GdalDiag(disk)

C3_Witness ==
  /\ OpenFailed /\ pc = "r_stratB"
  /\ loc.gdalError = DiagUnhandledProj /\ loc.isGeodetic

\* C4: a failed open classified Other starts no recovery strategy and no page
\* rendering, writes nothing, and answers GDAL_OPEN_FAILED with error = TRUE and
\* fallbackAttempted = FALSE; a failure after a successful open never starts
\* the fallback either.
NoFallbackCalls ==
  ~InTrace("stratB") /\ ~InTrace("stratC") /\ ~InTrace("pageRender")

C4_OnlyUnsupportedFallsBack ==
  /\ (OpenFailed /\ disk.exists /\ disk.diag \in OtherDiags) =>
       /\ NoFallbackCalls /\ ~InTrace("open:fos")
       /\ pc \in {"r_failed", "done"}
       /\ pc = "done" =>
            /\ Len(resolved) = 1
            /\ resolved[1].code = "GDAL_OPEN_FAILED" /\ resolved[1].error
            /\ resolved[1].result["fallbackAttempted"] = FALSE
  /\ (Rendering /\ InTrace("open:dataset")) => NoFallbackCalls

C4_Witness ==
  /\ pc = "done" /\ OpenFailed /\ disk.diag = DiagUnhandledOnly
  /\ resolved[1].code = "GDAL_OPEN_FAILED"

Before(a, b) ==
  \E i \in 1..Len(trace) : \E j \in 1..Len(trace) : i < j /\ trace[i] = a /\ trace[j] = b
Count(e) == Cardinality({i \in 1..Len(trace) : trace[i] = e})
Answer == resolved[1]
\* the number a decimal text denotes, in the model's units
RECURSIVE NatValue(_)
NatValue(s) ==
  IF s = <<>> THEN 0
  ELSE 10 * NatValue(SubSeq(s, 1, Len(s) - 1))
         + (CHOOSE d \in 0..9 : DigitChars[d + 1] = s[Len(s)])
DecimalValue(s) ==
  LET neg == s[1] = "-"
      body == IF neg THEN Tail(s) ELSE s
      dot == CHOOSE i \in 1..Len(body) : body[i] = "."
      whole == NatValue(SubSeq(body, 1, dot - 1))
      digits == SubSeq(body, dot + 1, Len(body))
      hundredths == IF Len(digits) = 1 THEN 10 * NatValue(digits) ELSE NatValue(digits)
      a == whole * Deg(1) + hundredths \div 5
  IN IF neg THEN -a ELSE a
Corner(env, key) == Pt(DecimalValue(env.result[key].x), DecimalValue(env.result[key].y))
CornerKeys == {"topLeft", "topRight", "bottomLeft", "bottomRight", "center"}
MetaPoints(m) ==
  [topLeft |-> Pt(m.topLeftLng, m.topLeftLat), topRight |-> Pt(m.topRightLng, m.topRightLat),
   bottomLeft |-> Pt(m.bottomLeftLng, m.bottomLeftLat),
   bottomRight |-> Pt(m.bottomRightLng, m.bottomRightLat),
   center |-> Pt(m.centerLng, m.centerLat)]
FallbackSucceeded == pc = "done" /\ Rendering /\ InTrace("pageRender:value")
PrimarySucceeded ==
  /\ pc = "done" /\ Rendering /\ InTrace("open:dataset")
  /\ Len(resolved) >= 1 /\ Answer.code = "SUCCESS"

\* C5 as stated: recovery tries the geotransform strategy A, then the byte scan
\* B, then the vector extent C, each only after every earlier one was invoked
\* and returned none.
C5_Claim ==
  Rendering =>
    /\ InTrace("stratB") => InTrace("stratA:null")
    /\ InTrace("stratC") => InTrace("stratA:null") /\ InTrace("stratB:null")

\* C5 amended: on an UnsupportedScheme failure the handler invokes the byte scan
\* B and then, only if B returned none, the vector extent C, each at most once;
\* the geotransform strategy A is not part of the chain; if B returns an extent
\* C is not invoked and B's extent is the one kept and reported.
C5_ScanThenVector ==
  Rendering =>
    /\ ~InTrace("stratA")
    /\ Count("stratB") <= 1 /\ Count("stratC") <= 1
    /\ InTrace("stratB") => OpenFailed /\ loc.isGeodetic
    /\ InTrace("stratC") => Before("stratB:null", "stratC")
    /\ InTrace("stratB:value") =>
         /\ ~InTrace("stratC")
         /\ loc.metadata = ScanContent(disk)
         /\ FallbackSucceeded =>
              \A k \in CornerKeys : Corner(Answer, k) = MetaPoints(ScanContent(disk))[k]

C5_Witness ==
  /\ FallbackSucceeded /\ InTrace("stratB:value")
  /\ disk.ogrOpens = FALSE /\ Answer.result["metadataExtracted"]

\* C6 as stated: every successful render result carries a renderer tag, naming
\* the primary renderer when the image came from the raster bands and the
\* fallback renderer when it came from page rasterization.
RendererTag(env) ==
  IF ~Has(env, "renderedWith") THEN "untagged"
  ELSE IF env.result["renderedWith"] = "AndroidPdfRenderer" THEN "fallback"
  ELSE "primary"

C6_Claim ==
  /\ PrimarySucceeded => RendererTag(Answer) = "primary"
  /\ FallbackSucceeded => RendererTag(Answer) = "fallback"

\* C6 amended: a successful result carries the renderer tag exactly when the
\* fallback produced it (open failed as UnsupportedScheme, image from page
\* rasterization): renderedWith = "AndroidPdfRenderer", with metadataExtracted;
\* a result produced from the raster bands carries no renderedWith key and
\* carries geoTransform.
C6_FallbackTagged ==
  /\ FallbackSucceeded =>
       /\ OpenFailed /\ loc.isGeodetic
       /\ Has(Answer, "renderedWith") /\ Answer.result["renderedWith"] = "AndroidPdfRenderer"
       /\ Has(Answer, "metadataExtracted") /\ ~Has(Answer, "geoTransform")
  /\ PrimarySucceeded =>
       /\ InTrace("ReadRaster")
       /\ ~Has(Answer, "renderedWith") /\ ~Has(Answer, "metadataExtracted")
       /\ Has(Answer, "geoTransform")

C6_Witness == PrimarySucceeded /\ disk.bandCount = 3 /\ ~Has(Answer, "renderedWith")

\* C7: when the fallback page rendering succeeds the call answers SUCCESS with
\* error = FALSE; metadataExtracted is TRUE exactly when a recovery strategy
\* returned an extent, and then the corners and center are that extent's;
\* otherwise the four corners and the center are zero.
C7_FallbackMetadata ==
  FallbackSucceeded =>
    LET found == InTrace("stratB:value") \/ InTrace("stratC:value") IN
    /\ Len(resolved) = 1 /\ ~Answer.error /\ Answer.code = "SUCCESS"
    /\ Answer.result["metadataExtracted"] = found
    /\ found = (loc.metadata # NullMeta)
    /\ \A k \in CornerKeys :
         Corner(Answer, k) = IF found THEN MetaPoints(loc.metadata)[k] ELSE Pt(0, 0)

C7_Witness ==
  /\ FallbackSucceeded /\ InTrace("stratC:value")
  /\ Answer.result["metadataExtracted"] /\ Corner(Answer, "center") # Pt(0, 0)

\* C8: when the open fails as UnsupportedScheme and the page rendering fails
\* too, the call answers the raster failure: GDAL_OPEN_FAILED, error = TRUE, the
\* library's diagnostic, fallbackAttempted = TRUE, whether or not metadata
\* recovery had succeeded.
C8_FallbackFailed ==
  (pc = "done" /\ Rendering /\ InTrace("pageRender:null")) =>
    /\ Len(resolved) = 1
    /\ Answer.code = "GDAL_OPEN_FAILED" /\ Answer.error
    /\ Answer.result["gdalError"] = disk.diag
    /\ Answer.result["fallbackAttempted"] = TRUE
    /\ Answer.result["isGeodetic"] = TRUE

C8_Witness ==
  /\ pc = "done" /\ Rendering /\ InTrace("pageRender:null")
  /\ loc.metadata # NullMeta /\ InTrace("stratC:value") /\ InTrace("open:page")
  /\ Answer.code = "GDAL_OPEN_FAILED"

\* C9 as stated: every coordinate of a successful renderGeoPDFToPng answer
\* (four corners and center) is a WGS84 value, x in [-180, 180] and y in
\* [-90, 90], whatever the geotransform and the projection text and whether or
\* not the reprojection succeeded.
C9_Claim ==
  (pc = "done" /\ Rendering /\ Len(resolved) >= 1 /\ Answer.code = "SUCCESS") =>
    \A k \in CornerKeys : LngOK(Corner(Answer, k).x) /\ LatOK(Corner(Answer, k).y)

\* C10 as stated: every extent a recovery strategy returns has its four corners
\* and its center within longitude [-180, 180] and latitude [-90, 90].
C10_Claim ==
  (Rendering /\ loc.metadata # NullMeta) =>
    \A k \in CornerKeys :
      LngOK(MetaPoints(loc.metadata)[k].x) /\ LatOK(MetaPoints(loc.metadata)[k].y)

\* the native corner and center coordinates of the raster in flight, and
\* their reprojection through the dataset's own spatial reference
Native == NativeCorners(disk.width, disk.height, disk.gt)
Reprojected ==
  [k \in CornerKeys |-> TransformPoint(ImportFromWkt(ProjectionWkt(disk)), Native[k])]
AllNative == \A k \in CornerKeys : Corner(Answer, k) = Native[k]
AllReprojected ==
  /\ ImportFromWkt(ProjectionWkt(disk)) # "error"
  /\ \A k \in CornerKeys : Corner(Answer, k) = Reprojected[k]

\* C11 as stated: a reprojection failure at any step does not fail the primary
\* render, and the five reported points are then all native: the answer's
\* points are either all reprojected or all native, never a mixture.
C11_Claim == PrimarySucceeded => (AllNative \/ AllReprojected)

\* C12: for a raster of width W and height H with geotransform
\* [x0, pw, 0, y0, 0, ph] whose reprojection is the identity (WGS84 source), a
\* successful primary render reports topLeft = (x0, y0), topRight = (x0 + W*pw,
\* y0), bottomLeft = (x0, y0 + H*ph), bottomRight = (x0 + W*pw, y0 + H*ph) and
\* center = (x0 + (W/2)*pw, y0 + (H/2)*ph), the mean of opposing corners; for
\* W = H = 100 and [-10.0, 0.1, 0, 20.0, 0, -0.1] the texts reported are
\* (-10.0, 20.0), (0.0, 20.0), (-10.0, 10.0), (0.0, 10.0) and (-5.0, 15.0).
C12_Corners ==
  (PrimarySucceeded /\ ImportFromWkt(ProjectionWkt(disk)) = "WGS84") =>
    LET W == disk.width
        H == disk.height
        x0 == disk.gt[1]
        pw == disk.gt[2]
        y0 == disk.gt[4]
        ph == disk.gt[6]
    IN /\ Corner(Answer, "topLeft") = Pt(x0, y0)
       /\ Corner(Answer, "topRight") = Pt(x0 + W * pw, y0)
       /\ Corner(Answer, "bottomLeft") = Pt(x0, y0 + H * ph)
       /\ Corner(Answer, "bottomRight") = Pt(x0 + W * pw, y0 + H * ph)
       /\ 2 * Corner(Answer, "center").x = 2 * x0 + W * pw
       /\ 2 * Corner(Answer, "center").y = 2 * y0 + H * ph
       /\ 2 * Corner(Answer, "center").x
            = Corner(Answer, "topLeft").x + Corner(Answer, "bottomRight").x
       /\ 2 * Corner(Answer, "center").y
            = Corner(Answer, "bottomLeft").y + Corner(Answer, "topRight").y
       /\ (W = 100 /\ H = 100 /\ disk.gt = <<Deg(-10), 2, 0, Deg(20), 0, -2>>) =>
            /\ Answer.result["topLeft"] = [x |-> <<"-", "1", "0", ".", "0">>,
                                           y |-> <<"2", "0", ".", "0">>]
            /\ Answer.result["topRight"] = [x |-> <<"0", ".", "0">>,
                                            y |-> <<"2", "0", ".", "0">>]
            /\ Answer.result["bottomLeft"] = [x |-> <<"-", "1", "0", ".", "0">>,
                                              y |-> <<"1", "0", ".", "0">>]
            /\ Answer.result["bottomRight"] = [x |-> <<"0", ".", "0">>,
                                               y |-> <<"1", "0", ".", "0">>]
            /\ Answer.result["center"] = [x |-> <<"-", "5", ".", "0">>,
                                          y |-> <<"1", "5", ".", "0">>]

C12_Witness ==
  /\ PrimarySucceeded /\ disk.projRef = WktWGS84
  /\ disk.width = 3 /\ disk.height = 2 /\ disk.gt = GtExample
  /\ Corner(Answer, "center") = Pt(Deg(-10) + 3, Deg(20) - 2)

\* C13: when the byte scan finds the four tags /LLX, /LLY, /URX, /URY with
\* values all within the longitude and latitude ranges, it returns topLeft =
\* (LLX, URY), topRight = (URX, URY), bottomLeft = (LLX, LLY), bottomRight =
\* (URX, LLY), center = ((LLX+URX)/2, (LLY+URY)/2), and the fallback response
\* embeds that extent; for "/LLX 10 /LLY 20 /URX 15 /URY 25" the response
\* reports (10, 25), (15, 25), (10, 20), (15, 20) and center (12.5, 22.5).
C13_TagExtent ==
  LET LLX == disk.tags.LLX[1]
      LLY == disk.tags.LLY[1]
      URX == disk.tags.URX[1]
      URY == disk.tags.URY[1]
  IN (/\ Rendering /\ InTrace("close:raf") /\ TagsFound(disk.tags)
      /\ LLX >= Deg(-180) /\ LLX <= Deg(180) /\ URX >= Deg(-180) /\ URX <= Deg(180)
      /\ LLY >= Deg(-90) /\ LLY <= Deg(90) /\ URY >= Deg(-90) /\ URY <= Deg(90)) =>
       /\ InTrace("stratB:value") /\ ~InTrace("stratC")
       /\ MetaPoints(loc.metadata).topLeft = Pt(LLX, URY)
       /\ MetaPoints(loc.metadata).topRight = Pt(URX, URY)
       /\ MetaPoints(loc.metadata).bottomLeft = Pt(LLX, LLY)
       /\ MetaPoints(loc.metadata).bottomRight = Pt(URX, LLY)
       /\ 2 * loc.metadata.centerLng = LLX + URX
       /\ 2 * loc.metadata.centerLat = LLY + URY
       /\ FallbackSucceeded =>
            /\ \A k \in CornerKeys : Corner(Answer, k) = MetaPoints(loc.metadata)[k]
            /\ disk.tags = TagsOf(ContentExample) =>
                 /\ Answer.result["topLeft"] = [x |-> <<"1", "0", ".", "0">>,
                                                y |-> <<"2", "5", ".", "0">>]
                 /\ Answer.result["topRight"] = [x |-> <<"1", "5", ".", "0">>,
                                                 y |-> <<"2", "5", ".", "0">>]
                 /\ Answer.result["bottomLeft"] = [x |-> <<"1", "0", ".", "0">>,
                                                   y |-> <<"2", "0", ".", "0">>]
                 /\ Answer.result["bottomRight"] = [x |-> <<"1", "5", ".", "0">>,
                                                    y |-> <<"2", "0", ".", "0">>]
                 /\ Answer.result["center"] = [x |-> <<"1", "2", ".", "5">>,
                                               y |-> <<"2", "2", ".", "5">>]

C13_Witness ==
  /\ FallbackSucceeded /\ disk.tags = TagsOf(ContentExample) /\ disk.groups = <<>>
  /\ Answer.result["center"].x = <<"1", "2", ".", "5">>

\* C14: every raster dataset and vector data-source handle an operation opens
\* is released exactly once before the operation returns, on every exit path:
\* success, every early error return (unreadable bands, unsupported band
\* count, write failure, rejected coordinates) and a thrown internal error;
\* once the call is complete no dataset it opened is still open, unless the
\* release call itself threw.
C14_HandlesReleased ==
  /\ Count("close:dataset") <= Count("open:dataset") /\ Count("open:dataset") <= 1
  /\ Count("close:dataSource") = Count("open:dataSource")
  /\ Count("open:dataSource") <= 1
  /\ loc.dataset = (Count("open:dataset") > Count("close:dataset")
                      \/ InTrace("throw:close:dataset"))
  /\ InTrace("close:dataSource") => Before("open:dataSource", "close:dataSource")
  /\ pc = "done" =>
       /\ Count("close:dataset") = Count("open:dataset")
       /\ InTrace("close:dataset") => Before("open:dataset", "close:dataset")
       /\ loc.dataset => InTrace("throw:close:dataset")

C14_Witness ==
  /\ pc = "done" /\ Rendering /\ InTrace("ReadRaster") /\ loc.pixels = "none"
  /\ InTrace("close:dataset") /\ ~loc.dataset /\ Answer.code = "ERROR"

\* C15 as stated: every spatial-reference and coordinate-transformation handle
\* the primary render path or a recovery strategy creates is released before
\* the operation returns, on every exit path; after the call none is open.
C15_Claim ==
  pc = "done" =>
    /\ Count("close:srs") = Count("open:srs")
    /\ Count("close:transform") = Count("open:transform")

\* The readGeoPDF in flight has completed on the file of the last completed
\* readGeoPDF, with the same library exceptions.
SameReadAgain ==
  /\ pc = "done" /\ op = "readGeoPDF"
  /\ lastRead.file = disk
  /\ lastRead.throws = Throws(trace)

\* C16: readGeoPDF invoked again on an unchanged file, whatever operations ran
\* in between, resolves with the same envelopes (the same code and the same
\* width, height, bandCount, driver, projection, geoTransform and bands) as
\* the previous readGeoPDF on that file, the library raising the same
\* exceptions in both.
C16_Idempotent == SameReadAgain => resolved = lastRead.resolved

\* a second successful readGeoPDF of the same raster, the process-wide error
\* message having been changed by an operation in between
C16_Witness ==
  /\ SameReadAgain
  /\ Len(resolved) = 1 /\ resolved[1]["code"] = "SUCCESS"
  /\ lastRead.err # lastErrorMsg

GdalCalls == {"VersionInfo", "GetDriverCount", "GetLastErrorMsg", "gdal.Open", "ReadRaster"}
OgrCalls == {"ogr.Open", "GetExtent"}

\* every call of the invocation that is in calls comes after a call of reg
RegisteredBefore(calls, reg) ==
  \A i \in 1..Len(trace) :
    trace[i] \in calls => \E j \in 1..(i - 1) : trace[j] = reg

\* a readGeoPDF that registers again gives the answer of the previous one
RepeatedRegistration ==
  (SameReadAgain /\ lib = "ok") =>
    /\ registered /\ InTrace("AllRegister")
    /\ resolved = lastRead.resolved

\* C19 as stated: every operation, the version query included, registers the
\* drivers before its first call into the library, the vector strategy
\* registers before it opens the data source, and registering again changes
\* no result.
C19_Claim ==
  /\ RegisteredBefore(GdalCalls, "AllRegister")
  /\ RegisteredBefore(OgrCalls, "ogr.RegisterAll")
  /\ RepeatedRegistration

\* C19 amended: listDrivers, readGeoPDF and renderGeoPDFToPng register the
\* drivers before their first call into the library and the vector strategy
\* registers before it opens the data source; getVersionInfo queries the
\* version without registering; registering again changes no result.
C19_RegistersFirst ==
  /\ RegisteredBefore(GdalCalls \ {"VersionInfo"}, "AllRegister")
  /\ RegisteredBefore(OgrCalls, "ogr.RegisterAll")
  /\ op = "getVersionInfo" => ~InTrace("AllRegister")
  /\ RepeatedRegistration

\* a second readGeoPDF of a raster: registered again, then opened
C19_Witness ==
  /\ SameReadAgain /\ lib = "ok" /\ registered
  /\ Before("AllRegister", "open:dataset")
  /\ Answer.code = "SUCCESS"

\* the primary path got as far as the band handling: the raster opened and
\* the bitmap was created
AtBands == Rendering /\ InTrace("open:dataset") /\ InTrace("open:bitmap")

\* C20 as stated: after a successful raster open the primary path renders only
\* for a band count of 1 or of at least 3; the image then holds the gray band
\* replicated to red, green and blue (one band), or bands 1-3 as red, green and
\* blue with band 4 as alpha when present (three bands or more); for a band
\* count of 0 or 2 the call answers RENDER_ERROR with the error flag set, opens
\* no output file and starts no recovery strategy and no page rendering.
C20_Claim ==
  /\ PrimarySucceeded =>
       \/ disk.bandCount = 1 /\ loc.bitmap = "gray"
       \/ /\ disk.bandCount >= 3
          /\ loc.bitmap = IF disk.bandCount >= 4 /\ 4 \notin disk.nullBands
                          THEN "rgba" ELSE "rgb"
  /\ (AtBands /\ pc = "done" /\ disk.bandCount \in {0, 2}) =>
       /\ Answer.code = "RENDER_ERROR" /\ Answer.error
       /\ ~InTrace("open:fos")
       /\ NoFallbackCalls

\* the scan of strategy B has read the file and returned
Scanned == Rendering /\ InTrace("close:raf")

\* all four tags were found and their values are longitudes and latitudes
TagsAccepted(f) ==
  /\ \A k \in {"LLX", "LLY", "URX", "URY"} : f.tags[k] # <<>>
  /\ f.tags.LLX[1] \in Deg(-180)..Deg(180) /\ f.tags.URX[1] \in Deg(-180)..Deg(180)
  /\ f.tags.LLY[1] \in Deg(-90)..Deg(90) /\ f.tags.URY[1] \in Deg(-90)..Deg(90)

\* the bracketed groups, by index, whose two pairs are longitudes and latitudes
ValidGroups(f) ==
  { i \in 1..Len(f.groups) :
      /\ f.groups[i][1] \in Deg(-180)..Deg(180) /\ f.groups[i][3] \in Deg(-180)..Deg(180)
      /\ f.groups[i][2] \in Deg(-90)..Deg(90) /\ f.groups[i][4] \in Deg(-90)..Deg(90) }

\* C21: when the tag pattern gives no accepted extent (a tag missing, or all
\* four present with a value out of range) the scan goes on to the bracketed
\* groups and returns the extent of the first group, in document order, whose
\* pairs are in range, passing over earlier groups that are not; it returns
\* none exactly when the tags are not accepted and no group is in range.
C21_BracketPattern ==
  Scanned =>
    /\ InTrace("stratB:null") <=> (~TagsAccepted(disk) /\ ValidGroups(disk) = {})
    /\ (~TagsAccepted(disk) /\ ValidGroups(disk) # {}) =>
         LET first == CHOOSE i \in ValidGroups(disk) :
                        \A j \in ValidGroups(disk) : i <= j
         IN /\ InTrace("stratB:value")
            /\ loc.metadata = MetaFromGroup(disk.groups[first])

\* four tags with a longitude out of range, a first group out of range, and a
\* second group that is returned
C21_Witness ==
  /\ Scanned /\ pc = "done" /\ InTrace("stratB:value")
  /\ \A k \in {"LLX", "LLY", "URX", "URY"} : disk.tags[k] # <<>>
  /\ ~TagsAccepted(disk)
  /\ ValidGroups(disk) = {2}
  /\ loc.metadata = MetaFromGroup(disk.groups[2])

\* C22 as stated: every extent strategy B returns, from either pattern, is an
\* axis-aligned box with the left corners on the minimum longitude, the right
\* corners on the maximum, the bottom corners on the minimum latitude, the top
\* corners on the maximum, minimum <= maximum, and the center at the midpoint.
C22_Claim ==
  (Scanned /\ InTrace("stratB:value")) =>
    LET m == loc.metadata IN
    /\ m.topLeftLng = m.bottomLeftLng /\ m.topRightLng = m.bottomRightLng
    /\ m.topLeftLng <= m.topRightLng
    /\ m.bottomLeftLat = m.bottomRightLat /\ m.topLeftLat = m.topRightLat
    /\ m.bottomLeftLat <= m.topLeftLat
    /\ 2 * m.centerLng = m.topLeftLng + m.topRightLng
    /\ 2 * m.centerLat = m.bottomLeftLat + m.topLeftLat

\* the layers of f whose bounds pass the range check of line 1120
Qualifying(f) ==
  { i \in 1..Len(f.layers) :
      /\ ~f.layers[i].isNull /\ Len(f.layers[i].extent) >= 4
      /\ f.layers[i].extent[1] >= Deg(-180) /\ f.layers[i].extent[2] <= Deg(180)
      /\ f.layers[i].extent[3] >= Deg(-90) /\ f.layers[i].extent[4] <= Deg(90) }
\* the layers up to index n that the data source hands out
Handed(f, n) == { i \in 1..Len(f.layers) : i <= n /\ ~f.layers[i].isNull }
\* the bounding box of a layer in WGS84: [minX, maxX, minY, maxY]
ExtentWGS84(layer) ==
  LET e == layer.extent IN
  IF layer.srs \in {"null", "WGS84"} THEN e
  ELSE LET lo == TransformPoint(layer.srs, Pt(e[1], e[3]))
           hi == TransformPoint(layer.srs, Pt(e[2], e[4]))
       IN <<lo.x, hi.x, lo.y, hi.y>>
\* strategy C has returned without any library call of its own throwing
VectorReturned ==
  /\ Rendering /\ ~InTrace("catch:stratC")
  /\ InTrace("stratC:null") \/ InTrace("stratC:value")

\* C23: strategy C goes through the layers in index order and returns the
\* extent of the first layer whose bounds pass the range check, looking at no
\* later layer; null layers, layers without extent and layers whose bounds
\* fail the check are passed over; it returns null when the file does not open
\* as vector data, has no layers, or no layer passes.
C23_FirstQualifyingLayer ==
  VectorReturned =>
    IF ~(Exists(disk) /\ disk.ogrOpens)
    THEN InTrace("stratC:null") /\ Count("layer") = 0 /\ ~InTrace("open:dataSource")
    ELSE IF Qualifying(disk) = {}
    THEN /\ InTrace("stratC:null")
         /\ Count("layer") = Cardinality(Handed(disk, Len(disk.layers)))
    ELSE LET first == CHOOSE i \in Qualifying(disk) : \A j \in Qualifying(disk) : i <= j
             e == ExtentWGS84(disk.layers[first])
         IN /\ InTrace("stratC:value")
            /\ Count("layer") = Cardinality(Handed(disk, first))
            /\ loc.metadata.topLeftLng = e[1] /\ loc.metadata.bottomLeftLng = e[1]
            /\ loc.metadata.topRightLng = e[2] /\ loc.metadata.bottomRightLng = e[2]
            /\ loc.metadata.bottomLeftLat = e[3] /\ loc.metadata.bottomRightLat = e[3]
            /\ loc.metadata.topLeftLat = e[4] /\ loc.metadata.topRightLat = e[4]

\* a two-layer file whose first layer fails the range check and whose second
\* layer is returned, after both were looked at
C23_Witness ==
  /\ VectorReturned /\ pc = "r_page" /\ InTrace("stratC:value")
  /\ Len(disk.layers) = 2 /\ Qualifying(disk) = {2}
  /\ ~disk.layers[1].isNull /\ Len(disk.layers[1].extent) >= 4
  /\ Count("layer") = 2
  /\ loc.metadata.topLeftLng = ExtentWGS84(disk.layers[2])[1]

\* the file handles of an operation, as <<opening event, closing event>>
FileHandles ==
  { <<"open:raf", "close:raf">>, <<"open:fd", "close:fd">>,
    <<"open:pdfRenderer", "close:pdfRenderer">>, <<"open:page", "close:page">>,
    <<"open:fos", "close:fos">> }

\* C24 as stated: when an operation has returned, every file handle it opened
\* (the scan's raw-file reader; the fallback's file descriptor, PDF renderer and
\* page; the output stream of either renderer) has been closed, on every exit
\* path, those through a throwing read, construction, render, encode or close
\* included.
C24_Claim ==
  pc = "done" => \A h \in FileHandles : Count(h[1]) = Count(h[2])

\* C25 as stated: after an open failure of the unsupported-scheme kind the
\* page renderer is invoked exactly once whatever the recovery strategies did
\* (an extent, none, an internal failure, a linkage error of the vector
\* interface), and its outcome alone decides the answer: a fallback success
\* if it returned a map, GDAL_OPEN_FAILED if it returned none.
C25_Claim ==
  (pc = "done" /\ Rendering /\ loc.isGeodetic) =>
    /\ Count("pageRender") = 1
    /\ Len(resolved) = 1
    /\ InTrace("pageRender:value") =>
         Answer.code = "SUCCESS" /\ RendererTag(Answer) = "fallback"
    /\ InTrace("pageRender:null") => Answer.code = "GDAL_OPEN_FAILED"

\* C26 as stated: in a successful listDrivers answer the reported driverCount
\* is the number of entries of the drivers list, and entry k describes the
\* driver the library has at index k.
C26_Claim ==
  (op = "listDrivers" /\ pc = "done" /\ Len(resolved) >= 1 /\ Answer.code = "SUCCESS") =>
    /\ NatValue(Answer.result["driverCount"]) = Len(Answer.result["drivers"])
    /\ \E drivers \in DriverLists :
         /\ Len(drivers) = NatValue(Answer.result["driverCount"])
         /\ \A k \in 1..Len(Answer.result["drivers"]) :
              k <= Len(drivers) /\ Answer.result["drivers"][k].shortName = drivers[k]

\* C27 as stated: every invocation of a public operation resolves its promise
\* exactly once on every path: never zero times, and never twice, also when
\* an exception is raised after a resolve by a finally block.
C27_Claim ==
  pc = "done" => Len(resolved) = 1

\* C28: whenever renderGeoPDFToPng resolves with code SUCCESS, by the primary
\* or the fallback renderer, the file at the output path exists and is not
\* empty, and the answer names the requested output path; with the written
\* file missing or empty no SUCCESS is resolved.
C28_OutputWritten ==
  (Rendering /\ pc \in {"finally", "done"}) =>
    \A i \in 1..Len(resolved) :
      resolved[i].code = "SUCCESS" =>
        /\ outFile = "written"
        /\ Has(resolved[i], "outputPath") /\ resolved[i].result["outputPath"] = "outputPath"

\* the primary renderer has written the image and answered SUCCESS
C28_Witness ==
  /\ Rendering /\ pc = "done" /\ InTrace("open:dataset") /\ InTrace("close:fos")
  /\ Len(resolved) = 1 /\ Answer.code = "SUCCESS" /\ outFile = "written"
  /\ Answer.result["outputPath"] = "outputPath"

\* C29: in every envelope a public operation resolves, the error flag is
\* false exactly when the code is SUCCESS, the result field is a map and
\* never null, and an envelope whose error flag is true carries errorDetails.
C29_EnvelopeAgrees ==
  \A i \in 1..Len(resolved) :
    /\ resolved[i].error = FALSE <=> resolved[i].code = "SUCCESS"
    /\ resolved[i].result # NullMap
    /\ resolved[i].error = TRUE => Has(resolved[i], "errorDetails")

\* a failed open answered GDAL_OPEN_FAILED with the error flag set
C29_Witness ==
  /\ Rendering /\ pc = "done" /\ Len(resolved) = 1
  /\ Answer.code = "GDAL_OPEN_FAILED" /\ Answer.error = TRUE
  /\ Has(Answer, "errorDetails") /\ Has(Answer, "fallbackAttempted")

\* C30: readGeoPDF checks nothing about the file before opening it and has no
\* fallback: once the open was called it answers FILE_NOT_FOUND exactly when
\* the open returned no dataset, whether the file is missing, empty,
\* unreadable, corrupt or of the unsupported scheme; it never answers
\* FILE_EMPTY, FILE_PERMISSION_DENIED or GDAL_OPEN_FAILED and never runs a
\* recovery strategy or the page renderer.
C30_ReadNoPreChecks ==
  (op = "readGeoPDF" /\ pc = "done") =>
    /\ \A i \in 1..Len(resolved) :
         resolved[i].code \notin {"FILE_EMPTY", "FILE_PERMISSION_DENIED", "GDAL_OPEN_FAILED"}
    /\ InTrace("gdal.Open") =>
         /\ Len(resolved) >= 1
         /\ Answer.code = "FILE_NOT_FOUND" <=> ~InTrace("open:dataset")
         /\ ~InTrace("open:dataset") <=> ~GdalOpens(disk)
    /\ ~InTrace("gdal.Open") => \A i \in 1..Len(resolved) : resolved[i].code # "FILE_NOT_FOUND"
    /\ ~InTrace("stratB") /\ ~InTrace("stratC") /\ ~InTrace("pageRender")

\* an existing empty file, which the renderer answers with FILE_EMPTY, read
\* and answered with FILE_NOT_FOUND
C30_Witness ==
  /\ op = "readGeoPDF" /\ pc = "done" /\ InTrace("gdal.Open")
  /\ Exists(disk) /\ Length0(disk) /\ PreCheck(disk) = "FILE_EMPTY"
  /\ Len(resolved) = 1 /\ Answer.code = "FILE_NOT_FOUND"
====
